---- MODULE Spec2Model ----
(***************************************************************************)
(* Reconciliation engine of the Takaro operator.                           *)
(*                                                                         *)
(*   BaseController   (src/src/controllers/base-controller.ts:1-264):      *)
(*     the deduplicating reconcile queue, the periodic drain, the delayed  *)
(*     requeue timers.                                                     *)
(*   DomainController (src/src/controllers/domain-controller.ts:1-509):    *)
(*     reconcile, reconcileDomain, handleDeletion, the finalizer patches.  *)
(*   TakaroClient     (src/src/services/takaro-client.ts): the remote      *)
(*     calls, seen through their outcomes.                                 *)
(*                                                                         *)
(* An async function is modelled by its position (pc): one step runs from  *)
(* the completion of one awaited call to the issue of the next one.        *)
(***************************************************************************)
EXTENDS Integers, Sequences, FiniteSets, Bags, TLC

VARIABLES
    reconcileQueue,  \* BaseController.reconcileQueue: Map<string, ReconcileRequest>
    timers,          \* outstanding setTimeout requeue callbacks (a bag)
    drain,           \* running processReconcileQueue() calls, by slot
    inv,             \* the reconcile() call each drain is awaiting
    lastEnqueued,    \* history of the queue specification: the request last stored
                     \* under each key, and how many were, now and at each drain's start
    store,           \* the cluster API: the Domain objects
    remote,          \* the Takaro API: the ids of the domains that exist there
    secrets,         \* the cluster API: the Secret objects, by name
    failuresLeft,    \* how many more calls may fail (Unlimited: any number)
    clock,           \* new Date(): the time the conditions are stamped with
    registry         \* ControllerRegistry: the controllers, and the startAll() call

vars ==
    <<reconcileQueue, timers, drain, inv, lastEnqueued, store, remote, secrets,
      failuresLeft, clock, registry>>

queueVars == <<reconcileQueue, timers, drain>>

worldVars == <<store, remote, secrets, failuresLeft, clock>>

-----------------------------------------------------------------------------
(* Bounds of the model *)

\* timers that may be outstanding at once, in the queue specification
MaxTimers == 2

\* timers that may be outstanding at once, in the operator specification
MaxDomainTimers == 1

\* resourceVersions a watch event may carry (a requeue timer carries none: 0)
ResourceVersions == {1}

\* domains the Takaro API creates before it refuses further ones
MaxRemote == 2

\* calls that may fail, in the specification with fairness
MaxFailures == 2

\* setTimeout callbacks the watch 'error' handler may have outstanding
MaxRestartTimers == 1

\* the setInterval timers and pending start() calls of one controller
MaxIntervals == 2

\* calls of StatusUpdater made on one condition list
MaxApply == 2

\* times generateExternalReferenceId is applied to one object, in the
\* specification of the derived id
MaxDerive == 2

\* metadata.generation values: 1..MaxGeneration
MaxGeneration == 2

\* registration tokens the Takaro API hands out
Tokens == {"token-1", "token-2"}

\* overlapping processReconcileQueue() calls: setInterval starts a new one at
\* every tick, whether or not the previous one has returned
Drains == {"d1", "d2"}

\* the processReconcileQueue() calls of the operator specification
DomainDrains == {"d1"}

\* objects the watch of the queue specification reports; the second one is
\* cluster-scoped (no namespace)
QueueObjs == {[namespace |-> "ns", name |-> "a"], [namespace |-> "", name |-> "b"]}

-----------------------------------------------------------------------------
(* Program constants *)

\* requeueAfter of a successful reconcile
SteadyRequeueMs == 60000

\* requeueAfter of a failed reconcile; also the default of the queue
ErrorRequeueMs == 5000

-----------------------------------------------------------------------------
(* ReconcileResult: requeueAfter 0 stands for "not set" (both are falsy) *)

EmptyResult == [requeue |-> FALSE, requeueAfter |-> 0]

RequeueResult(ms) == [requeue |-> TRUE, requeueAfter |-> ms]

NoInv == [pc |-> "none"]

\* a ControllerRegistry nothing has been registered with
NoRegistry == [pc |-> "idle", controllers |-> <<>>]

\* the Takaro API before any call: no domain, none ever created; failedDelete
\* is history (a deleteDomain call has failed)
NoRemote == [live |-> {}, created |-> 0, failedDelete |-> FALSE]

NoRequest == [namespace |-> "", name |-> "", resourceVersion |-> 0]

\* history: nothing has been enqueued under the key since it was last absent
NoneEnqueued == [request |-> NoRequest, n |-> 0]

-----------------------------------------------------------------------------
(* Domain objects, their status and conditions *)

FINALIZER_NAME == "takaro.io/domain-protection"

\* the Domain objects of the cluster (the Domain kind is namespaced)
DomainObjs == {[namespace |-> "ns", name |-> "a"]}

\* DomainStatus; "" and 0 stand for an absent field (both are falsy), present
\* FALSE for an object that has no status at all
NoStatus ==
    [present |-> FALSE, phase |-> "", conditions |-> <<>>, externalReferenceId |-> "",
     registrationToken |-> "", rootUserCredentials |-> "", observedGeneration |-> 0]

\* an object the store does not hold (getResource: 404)
Absent ==
    [exists |-> FALSE, namespace |-> "", name |-> "", uid |-> [prefix |-> "", rest |-> ""],
     deletionTimestamp |-> FALSE, finalizers |-> <<>>, generation |-> 0, status |-> NoStatus]

\* a Domain as kubectl creates it: no status, no finalizers, generation 1.
\* uid.prefix stands for the first 8 characters of metadata.uid
NewDomain(o) ==
    [exists |-> TRUE, namespace |-> o.namespace, name |-> o.name,
     uid |-> [prefix |-> "3f2a9c1e", rest |-> "-77b0"],
     deletionTimestamp |-> FALSE, finalizers |-> <<>>, generation |-> 1, status |-> NoStatus]

Includes(seq, x) == \E i \in 1..Len(seq) : seq[i] = x

RECURSIVE Without(_, _)
Without(seq, x) ==
    IF seq = <<>> THEN <<>>
    ELSE IF Head(seq) = x THEN Without(Tail(seq), x)
         ELSE <<Head(seq)>> \o Without(Tail(seq), x)

\* conditions.findIndex(c => c.type === type); 0 for -1
FindIndex(conditions, type) ==
    IF \E i \in 1..Len(conditions) : conditions[i].type = type
    THEN CHOOSE i \in 1..Len(conditions) :
            /\ conditions[i].type = type
            /\ \A j \in 1..(i - 1) : conditions[j].type # type
    ELSE 0

\* StatusUpdater.updateCondition
updateCondition(conditions, type, status, reason, message, now) ==
    LET existingIndex == FindIndex(conditions, type)
        newCondition == [type |-> type, status |-> status, reason |-> reason,
                         message |-> message, lastTransitionTime |-> now]
    IN  IF existingIndex = 0
        THEN Append(conditions, newCondition)
        ELSE LET existing == conditions[existingIndex]
                 hasChanged == existing.status # status \/ existing.reason # reason
             IN  [conditions EXCEPT ![existingIndex] =
                    IF hasChanged THEN newCondition
                    ELSE [newCondition EXCEPT
                            !.lastTransitionTime = existing.lastTransitionTime]]

\* mutant: every reconcile takes the spec for changed
hasSpecChangedAlways(domain) == TRUE

\* DomainController.hasSpecChanged
hasSpecChanged(domain) ==
    IF domain.status.observedGeneration = 0 THEN TRUE
    ELSE domain.generation # domain.status.observedGeneration

\* mutant: an id that also depends on the phase of the status
generateExternalReferenceIdOfPhase(domain) ==
    "k8s-operator-" \o domain.namespace \o "-" \o domain.name \o "-" \o domain.uid.prefix
        \o "-" \o domain.status.phase

\* DomainController.generateExternalReferenceId
generateExternalReferenceId(domain) ==
    "k8s-operator-" \o domain.namespace \o "-" \o domain.name \o "-" \o domain.uid.prefix

-----------------------------------------------------------------------------
(* A reconcile() call: its position, its locals, and the history of what it  *)
(* has done (created .. errorStatus), which the claims read.                *)

NewCall(request) ==
    [pc |-> "getResource", namespace |-> request.namespace, name |-> request.name,
     domain |-> Absent, refetched |-> Absent,
     conditions |-> <<>>, newPhase |-> "", externalReferenceId |-> "",
     registrationToken |-> "", rootUserCredentials |-> "",
     takaroDomain |-> [id |-> "", rootUser |-> ""],
     errorMessage |-> "",
     result |-> EmptyResult, thrown |-> FALSE,
     ensured |-> "none",        \* the finalizer patch of ensureFinalizer
     created |-> "none",        \* createDomain: none / ok / failed
     updated |-> <<>>,          \* updateDomain outcomes: ok / absent / failed
     deleting |-> "none",       \* the status patch of handleDeletion
     deleted |-> <<>>,          \* deleteDomain, per call: ok / absent (404) / failed
     removed |-> "none",        \* the finalizer patch of removeFinalizer
     written |-> NoStatus,      \* the status the call last patched into the store
     errorStatus |-> "none"]    \* the status patch of the catch block

-----------------------------------------------------------------------------
(* The reconcile queue: a JS Map, kept as a sequence of <<key, request>>    *)
(* entries in insertion order, at most one entry per key.                   *)

RECURSIVE SeqFilterKey(_, _)
SeqFilterKey(q, key) ==
    IF q = <<>> THEN <<>>
    ELSE IF Head(q).key = key THEN SeqFilterKey(Tail(q), key)
         ELSE <<Head(q)>> \o SeqFilterKey(Tail(q), key)

MapHas(q, key) == \E i \in 1..Len(q) : q[i].key = key

\* mutant: set() that appends a second entry for a key already present
MapSetAppend(q, key, request) == Append(q, [key |-> key, request |-> request])

MapSet(q, key, request) ==
    IF MapHas(q, key)
    THEN [i \in 1..Len(q) |-> IF q[i].key = key THEN [key |-> key, request |-> request] ELSE q[i]]
    ELSE Append(q, [key |-> key, request |-> request])

MapDelete(q, key) == SeqFilterKey(q, key)

MapValues(q) == [i \in 1..Len(q) |-> q[i].request]

\* enqueueReconcile: the key it stores the request under
EnqueueKey(namespace, name) ==
    IF namespace # "" THEN namespace \o "/" \o name ELSE name

\* processReconcileQueue: the key it deletes before reconciling
DrainKey(request) == request.namespace \o "/" \o request.name

enqueueReconcile(q, namespace, name, resourceVersion) ==
    MapSet(q, EnqueueKey(namespace, name),
           [namespace |-> namespace, name |-> name, resourceVersion |-> resourceVersion])

-----------------------------------------------------------------------------
(* processReconcileQueue *)

\* requests, i: the locals of the call; atStart, started: history (the queue
\* at the snapshot, the requests reconcile was invoked for)
IdleDrain ==
    [pc |-> "idle", requests |-> <<>>, i |-> 0, atStart |-> <<>>, started |-> <<>>]

\* the first pc of a reconcile() call: it runs up to its first await
StartReconcile(request) == NewCall(request)

\* requests the running drains have still to reconcile (each may set a timer)
Outstanding(d) ==
    IF drain[d].pc = "idle" THEN 0 ELSE Len(drain[d].requests) - drain[d].i + 1

RECURSIVE SumOutstanding(_)
SumOutstanding(ds) ==
    IF ds = {} THEN 0
    ELSE LET d == CHOOSE x \in ds : TRUE IN Outstanding(d) + SumOutstanding(ds \ {d})

\* history: a key that is no longer pending has no last request
Forget(last, q) == [k \in DOMAIN last |-> IF MapHas(q, k) THEN last[k] ELSE NoneEnqueued]

\* history: one more request stored under the key (counted up to 2)
Remember(last, namespace, name, resourceVersion) ==
    [last EXCEPT ![EnqueueKey(namespace, name)] =
        [request |-> [namespace |-> namespace, name |-> name,
                      resourceVersion |-> resourceVersion],
         n |-> IF @.n < 2 THEN @.n + 1 ELSE 2]]

\* The loop body from request i on, up to the await of reconcile():
\* delete the key, call reconcile.  q is the queue as it is at that point.
LoopFrom(d, dr, i, q) ==
    IF i > Len(dr.requests)
    THEN /\ drain' = [drain EXCEPT ![d] = IdleDrain]
         /\ inv' = [inv EXCEPT ![d] = NoInv]
         /\ reconcileQueue' = q
    ELSE /\ drain' = [drain EXCEPT ![d] =
                        [dr EXCEPT !.pc = "await", !.i = i,
                                   !.started = Append(dr.started, dr.requests[i])]]
         /\ inv' = [inv EXCEPT ![d] = StartReconcile(dr.requests[i])]
         /\ reconcileQueue' = MapDelete(q, DrainKey(dr.requests[i]))

\* A tick of the setInterval timer: a new processReconcileQueue() call
\* snapshots the queue and runs up to its first await. (cap: the bound on the
\* timers the calls under way can come to set)
Tick(d, cap) ==
    /\ drain[d].pc = "idle"
    /\ reconcileQueue # <<>>
    /\ BagCardinality(timers) + SumOutstanding(DOMAIN drain) + Len(reconcileQueue) <= cap
    /\ LoopFrom(d, [pc |-> "idle", requests |-> MapValues(reconcileQueue), i |-> 1,
                    atStart |-> reconcileQueue, started |-> <<>>], 1, reconcileQueue)
    /\ UNCHANGED <<timers, worldVars>>

\* mutant: a reconcile() that throws is not requeued
RequeueTimersUnlessThrown(request, call) ==
    IF call.thrown
    THEN EmptyBag
    ELSE IF call.result.requeue \/ call.result.requeueAfter # 0
    THEN SetToBag({[namespace |-> request.namespace, name |-> request.name,
                    delay |-> IF call.result.requeueAfter # 0
                              THEN call.result.requeueAfter ELSE ErrorRequeueMs]})
    ELSE EmptyBag

\* mutant: no timer is ever set
RequeueTimersNone(request, call) == EmptyBag

\* mutant: a reconcile() that returned is not requeued
RequeueTimersOnlyThrown(request, call) ==
    IF call.thrown
    THEN SetToBag({[namespace |-> request.namespace, name |-> request.name,
                    delay |-> ErrorRequeueMs]})
    ELSE EmptyBag

\* the timer processReconcileQueue sets once reconcile() has settled
RequeueTimers(request, call) ==
    IF call.thrown
    THEN SetToBag({[namespace |-> request.namespace, name |-> request.name,
                    delay |-> ErrorRequeueMs]})
    ELSE IF call.result.requeue \/ call.result.requeueAfter # 0
    THEN SetToBag({[namespace |-> request.namespace, name |-> request.name,
                    delay |-> IF call.result.requeueAfter # 0
                              THEN call.result.requeueAfter ELSE ErrorRequeueMs]})
    ELSE EmptyBag

\* reconcile() has settled: set the requeue timer, go on with the next request
Continue(d) ==
    /\ drain[d].pc = "await"
    /\ inv[d].pc = "done"
    /\ timers' = timers (+) RequeueTimers(drain[d].requests[drain[d].i], inv[d])
    /\ LoopFrom(d, drain[d], drain[d].i + 1, reconcileQueue)
    /\ UNCHANGED worldVars

\* a requeue timer fires: enqueueReconcile({metadata: {namespace, name}})
TimerFire(t) ==
    /\ BagIn(t, timers)
    /\ timers' = timers (-) SetToBag({t})
    /\ reconcileQueue' = enqueueReconcile(reconcileQueue, t.namespace, t.name, 0)
    /\ UNCHANGED <<drain, inv, worldVars>>

\* the informer reports add / update / delete of obj: enqueueReconcile(obj)
WatchEvent(obj, rv) ==
    /\ reconcileQueue' = enqueueReconcile(reconcileQueue, obj.namespace, obj.name, rv)
    /\ UNCHANGED <<timers, drain, inv, worldVars>>

-----------------------------------------------------------------------------
(* The queue on its own: reconcile() is the abstract method of              *)
(* BaseController; it settles with any ReconcileResult or throws.           *)

ReconcileResults ==
    {EmptyResult, RequeueResult(SteadyRequeueMs), [requeue |-> TRUE, requeueAfter |-> 0]}

AbstractReconcile(d) ==
    /\ inv[d].pc = "getResource"
    /\ \/ \E r \in ReconcileResults :
            inv' = [inv EXCEPT ![d] = [inv[d] EXCEPT !.pc = "done", !.result = r]]
       \/ inv' = [inv EXCEPT ![d] = [inv[d] EXCEPT !.pc = "done", !.thrown = TRUE]]
    /\ UNCHANGED <<queueVars, worldVars>>

QueueKeys == {EnqueueKey(o.namespace, o.name) : o \in QueueObjs}

InitQueue ==
    /\ reconcileQueue = <<>>
    /\ timers = EmptyBag
    /\ drain = [d \in Drains |-> IdleDrain]
    /\ inv = [d \in Drains |-> NoInv]
    /\ registry = NoRegistry
    /\ lastEnqueued = [last |-> [k \in QueueKeys |-> NoneEnqueued],
                       snap |-> [d \in Drains |-> [k \in QueueKeys |-> NoneEnqueued]]]
    /\ store = [o \in DomainObjs |-> Absent]
    /\ remote = NoRemote
    /\ secrets = {}
    /\ failuresLeft = 0
    /\ clock = 0

\* history: a request is stored under the key of (namespace, name)
HistEnqueue(namespace, name, resourceVersion) ==
    lastEnqueued' = [lastEnqueued EXCEPT
                        !.last = Remember(@, namespace, name, resourceVersion)]

\* history: drain d snapshots the queue, and deletes the key it reconciles
HistTick(d) ==
    lastEnqueued' = [last |-> Forget(lastEnqueued.last, reconcileQueue'),
                     snap |-> [lastEnqueued.snap EXCEPT ![d] = lastEnqueued.last]]

\* history: drain d deletes the key it reconciles next, or ends
HistContinue(d) ==
    lastEnqueued' =
        [last |-> Forget(lastEnqueued.last, reconcileQueue'),
         snap |-> IF drain'[d].pc = "idle"
                  THEN [lastEnqueued.snap EXCEPT ![d] = [k \in QueueKeys |-> NoneEnqueued]]
                  ELSE lastEnqueued.snap]

NextQueue ==
    \/ \E o \in QueueObjs, rv \in ResourceVersions :
            WatchEvent(o, rv) /\ HistEnqueue(o.namespace, o.name, rv) /\ UNCHANGED registry
    \/ \E d \in Drains : Tick(d, MaxTimers) /\ HistTick(d) /\ UNCHANGED registry
    \/ \E d \in Drains : AbstractReconcile(d) /\ UNCHANGED <<lastEnqueued, registry>>
    \/ \E d \in Drains : Continue(d) /\ HistContinue(d) /\ UNCHANGED registry
    \/ \E t \in BagToSet(timers) : TimerFire(t) /\ HistEnqueue(t.namespace, t.name, 0) /\ UNCHANGED registry

SpecQueue == InitQueue /\ [][NextQueue]_vars

-----------------------------------------------------------------------------
(* Claims about the queue *)

\* a reconcile() call that has started and not yet settled
InFlight(d) == inv[d].pc \notin {"none", "done"}

\* C1 (as claimed): at-most-one-in-flight. There is never a state in which two
\* reconcile invocations for the same (namespace, name) are executing. It is
\* stated for the namespaced objects, whose key the drain does delete.
C1_AtMostOneInFlight ==
    \A d1, d2 \in Drains :
        (d1 # d2 /\ InFlight(d1) /\ InFlight(d2) /\ inv[d1].namespace # "")
            => <<inv[d1].namespace, inv[d1].name>> # <<inv[d2].namespace, inv[d2].name>>

\* the reconciles drain d has invoked for the object of request r
Invocations(d, r) ==
    {j \in 1..Len(drain[d].started) :
        /\ drain[d].started[j].namespace = r.namespace
        /\ drain[d].started[j].name = r.name}

\* C2: dedup. Whatever number of times a key was enqueued before a drain
\* started, the drain invokes reconcile for it at most once, and exactly once
\* by the time it reaches its last request; the request the map holds, and the
\* one the drain reconciles, is the last one enqueued under the key.
C2_Dedup ==
    /\ \A i \in 1..Len(reconcileQueue) :
          reconcileQueue[i].request = lastEnqueued.last[reconcileQueue[i].key].request
    /\ \A d \in Drains :
          drain[d].pc = "await" =>
            \A e \in 1..Len(drain[d].atStart) :
              LET r == drain[d].atStart[e].request IN
              /\ Cardinality(Invocations(d, r)) <= 1
              /\ drain[d].i = Len(drain[d].requests) => Cardinality(Invocations(d, r)) = 1
              /\ \A j \in Invocations(d, r) :
                    drain[d].started[j] =
                        lastEnqueued.snap[d][drain[d].atStart[e].key].request

\* C2 witness: a drain has reached its last request, and a key of its snapshot
\* had been enqueued twice, last by a watch event, before the drain started.
C2_Witness ==
    \E d \in Drains :
        /\ drain[d].pc = "await"
        /\ drain[d].i = Len(drain[d].requests)
        /\ \E e \in 1..Len(drain[d].atStart) :
              /\ lastEnqueued.snap[d][drain[d].atStart[e].key].n >= 2
              /\ drain[d].atStart[e].request.resourceVersion > 0
              /\ Cardinality(Invocations(d, drain[d].atStart[e].request)) = 1

-----------------------------------------------------------------------------
(* The world DomainController talks to *)

\* failuresLeft: any number of calls may fail
Unlimited == 0 - 1

\* a call may fail for a reason of its own (network, server error)
CanFail == failuresLeft # 0

Spend == IF failuresLeft > 0 THEN failuresLeft - 1 ELSE failuresLeft

Obj(c) == [namespace |-> c.namespace, name |-> c.name]

\* the id the Takaro API gives the n-th domain it creates: never an external
\* reference the operator derives
TakaroId(n) == IF n = 1 THEN "dom-1" ELSE IF n = 2 THEN "dom-2" ELSE "dom-3"

RemoteHas(id) == \E e \in remote.live : e.id = id

SecretExists(namespace, name) ==
    \E x \in secrets : x.namespace = namespace /\ x.name = name

\* the body metadata of createSecrets: named after the Domain, owned by it
OwnedSecret(domain, suffix, data) ==
    [namespace |-> domain.namespace, name |-> domain.name \o suffix,
     owner |-> [kind |-> "Domain", name |-> domain.name, uid |-> domain.uid,
                controller |-> TRUE],
     data |-> data]

-----------------------------------------------------------------------------
(* DomainController.reconcile, from one await to the next *)

Return(c, r) == [c EXCEPT !.pc = "done", !.result = r]

\* an error reaches the catch block of reconcile, which first fetches the object
\* mutant: a reconcile without its try / catch, the error leaves the call
CatchRethrowing(c, message) ==
    [c EXCEPT !.pc = "done", !.errorMessage = message, !.thrown = TRUE]

Catch(c, message) == [c EXCEPT !.pc = "catchGetResource", !.errorMessage = message]

\* reconcileDomain: the catch block of the creation path. It sets the phase and
\* the conditions in its locals and rethrows; the locals are not returned
CreateCatch(c, message, isTakaroClientError) ==
    LET errorMessage == IF isTakaroClientError THEN message ELSE "Failed to create domain"
        k1 == updateCondition(c.conditions, "Ready", "False", "CreateFailed",
                              errorMessage, clock)
        k2 == updateCondition(k1, "Error", "True", "CreateError", errorMessage, clock)
    IN  Catch([c EXCEPT !.newPhase = "Error", !.conditions = k2], message)

\* mutant: a failed updateDomain that is swallowed, the reconcile going on to
\* return its status
UpdateCatchSwallowing(c, message, isTakaroClientError) ==
    [(IF c.newPhase # "Ready" /\ c.newPhase # "Error"
      THEN [c EXCEPT !.newPhase = "Ready"] ELSE c) EXCEPT !.pc = "updateStatus"]

\* reconcileDomain: the catch block of the update path, likewise
UpdateCatch(c, message, isTakaroClientError) ==
    LET errorMessage == IF isTakaroClientError THEN message ELSE "Failed to update domain"
        k1 == updateCondition(c.conditions, "Synced", "False", "UpdateFailed",
                              errorMessage, clock)
        k2 == updateCondition(k1, "Error", "True", "UpdateError", errorMessage, clock)
    IN  Catch([c EXCEPT !.conditions = k2], message)

\* reconcileDomain after the update branch: the phase check and the return;
\* reconcile then awaits updateResourceStatus
AfterUpdate(c) ==
    LET c2 == IF c.newPhase # "Ready" /\ c.newPhase # "Error"
              THEN [c EXCEPT !.newPhase = "Ready",
                             !.conditions = updateCondition(@, "Ready", "True", "DomainReady",
                                                            "Domain is ready", clock)]
              ELSE c
    IN  [c2 EXCEPT !.pc = "updateStatus"]

\* reconcileDomain up to its first await
reconcileDomain(c) ==
    LET st == c.domain.status
        c1 == [c EXCEPT !.conditions = st.conditions,
                        !.newPhase = IF st.phase = "" THEN "Pending" ELSE st.phase,
                        !.externalReferenceId = st.externalReferenceId,
                        !.registrationToken = st.registrationToken,
                        !.rootUserCredentials = st.rootUserCredentials]
    IN  IF st.externalReferenceId = ""
        THEN [c1 EXCEPT !.pc = "createDomain",
                        !.externalReferenceId = generateExternalReferenceId(c.domain),
                        !.newPhase = "Creating"]
        ELSE IF hasSpecChanged(c.domain)
        THEN [c1 EXCEPT !.pc = "updateDomain"]
        ELSE AfterUpdate(c1)

\* the status reconcileDomain returns
UpdatedStatus(c) ==
    [present |-> TRUE, phase |-> c.newPhase, conditions |-> c.conditions,
     externalReferenceId |-> c.externalReferenceId,
     registrationToken |-> c.registrationToken,
     rootUserCredentials |-> c.rootUserCredentials,
     observedGeneration |-> c.domain.generation]

\* mutant: a handleDeletion that does not look for the finalizer
handleDeletionAlways(c) ==
    IF c.domain.status.externalReferenceId # ""
    THEN [c EXCEPT !.pc = "deletingStatus"]
    ELSE [c EXCEPT !.pc = "removeFinalizer"]

\* handleDeletion up to its first await
handleDeletion(c) ==
    IF ~Includes(c.domain.finalizers, FINALIZER_NAME)
    THEN Return(c, EmptyResult)
    ELSE IF c.domain.status.externalReferenceId # ""
    THEN [c EXCEPT !.pc = "deletingStatus"]
    ELSE [c EXCEPT !.pc = "removeFinalizer"]

\* mutant: a catch block that swallows every error
DeletionCatchSwallowing(c, isTakaroClientError, statusCode) ==
    [c EXCEPT !.pc = "removeFinalizer"]

\* handleDeletion: the catch block around the status patch and deleteDomain
DeletionCatch(c, isTakaroClientError, statusCode) ==
    IF isTakaroClientError /\ statusCode # 404
    THEN Return(c, RequeueResult(ErrorRequeueMs))
    ELSE [c EXCEPT !.pc = "removeFinalizer"]

\* reconcile once the object is fetched, up to the next await
\* mutant: a reconcile that does not call ensureFinalizer
AfterGetUnfinalized(c) ==
    IF c.domain.deletionTimestamp
    THEN handleDeletion(c)
    ELSE reconcileDomain(c)

\* mutant: a missing object is handled as a failed reconcile
NotFoundAsError(c) == Catch(c, "Domain not found")

\* mutant: a missing object is looked for again later
NotFoundRequeued(c) == Return(c, RequeueResult(ErrorRequeueMs))

\* getResource returned null: nothing to reconcile
NotFound(c) == Return(c, EmptyResult)

AfterGet(c) ==
    IF c.domain.deletionTimestamp
    THEN handleDeletion(c)
    ELSE IF ~Includes(c.domain.finalizers, FINALIZER_NAME)
    THEN [c EXCEPT !.pc = "ensureFinalizer"]
    ELSE reconcileDomain(c)

\* await this.getResource(namespace, name): outside the try block
GetResource(d) ==
    LET c == inv[d] IN
    /\ c.pc = "getResource"
    /\ \/ /\ store[Obj(c)].exists
          /\ inv' = [inv EXCEPT ![d] = AfterGet([c EXCEPT !.domain = store[Obj(c)]])]
          /\ UNCHANGED failuresLeft
       \/ /\ ~store[Obj(c)].exists
          /\ inv' = [inv EXCEPT ![d] = NotFound(c)]
          /\ UNCHANGED failuresLeft
       \/ /\ CanFail
          /\ inv' = [inv EXCEPT ![d] = [c EXCEPT !.pc = "done", !.thrown = TRUE]]
          /\ failuresLeft' = Spend
    /\ UNCHANGED <<queueVars, store, remote, secrets, clock>>

\* ensureFinalizer: the patch that sets metadata.finalizers
EnsureFinalizer(d) ==
    LET c == inv[d] IN
    /\ c.pc = "ensureFinalizer"
    /\ \/ /\ store[Obj(c)].exists
          /\ store' = [store EXCEPT ![Obj(c)].finalizers =
                          Append(c.domain.finalizers, FINALIZER_NAME)]
          /\ inv' = [inv EXCEPT ![d] = reconcileDomain([c EXCEPT !.ensured = "ok"])]
          /\ UNCHANGED failuresLeft
       \/ /\ ~store[Obj(c)].exists \/ CanFail
          /\ inv' = [inv EXCEPT ![d] =
                        Catch([c EXCEPT !.ensured = "failed"], "finalizer patch failed")]
          /\ failuresLeft' = IF store[Obj(c)].exists THEN Spend ELSE failuresLeft
          /\ UNCHANGED store
    /\ UNCHANGED <<queueVars, remote, secrets, clock>>

\* takaroClient.createDomain(name, externalReferenceId, limits, settings).
\* rootUser is the field reconcileDomain reads from the response (line 130):
\* "" when the response has none, which is what TakaroClient.createDomain of
\* services/takaro-client.ts returns (lines 104-115: id, name, limits, settings)
CreateDomain(d) ==
    LET c == inv[d] IN
    /\ c.pc = "createDomain"
    /\ \/ /\ remote.created < MaxRemote
          /\ \E rootUser \in {"", "root"} :
               LET id == TakaroId(remote.created + 1) IN
               /\ remote' = [remote EXCEPT
                                !.live = @ \cup {[id |-> id,
                                                  externalReference |-> c.externalReferenceId]},
                                !.created = @ + 1]
               /\ inv' = [inv EXCEPT ![d] =
                             [c EXCEPT !.pc = "generateRegistrationToken",
                                       !.created = "ok",
                                       !.takaroDomain = [id |-> id, rootUser |-> rootUser]]]
          /\ UNCHANGED failuresLeft
       \/ /\ CanFail \/ remote.created >= MaxRemote
          /\ inv' = [inv EXCEPT ![d] =
                        CreateCatch([c EXCEPT !.created = "failed"],
                                    "Failed to create domain", TRUE)]
          /\ failuresLeft' = IF remote.created < MaxRemote THEN Spend ELSE failuresLeft
          /\ UNCHANGED remote
    /\ UNCHANGED <<queueVars, store, secrets, clock>>

\* takaroClient.generateRegistrationToken, the rootUser check, and createSecrets
\* up to its first createNamespacedSecret
GenerateRegistrationToken(d) ==
    LET c == inv[d] IN
    /\ c.pc = "generateRegistrationToken"
    /\ \/ /\ \E token \in Tokens :
               inv' = [inv EXCEPT ![d] =
                   IF c.takaroDomain.rootUser = ""
                   THEN CreateCatch([c EXCEPT !.registrationToken = token],
                              "Domain creation did not return root user credentials", FALSE)
                   ELSE [c EXCEPT !.registrationToken = token, !.pc = "createTokenSecret"]]
          /\ UNCHANGED failuresLeft
       \/ /\ CanFail
          /\ inv' = [inv EXCEPT ![d] =
                        CreateCatch(c, "Failed to generate registration token", TRUE)]
          /\ failuresLeft' = Spend
    /\ UNCHANGED <<queueVars, store, remote, secrets, clock>>

\* createSecrets: createNamespacedSecret of the registration-token secret;
\* 409 (the secret exists) is not an error
CreateTokenSecret(d) ==
    LET c == inv[d] IN
    /\ c.pc = "createTokenSecret"
    /\ \/ /\ ~SecretExists(c.domain.namespace, c.domain.name \o "-registration-token")
          /\ secrets' = secrets \cup
                {OwnedSecret(c.domain, "-registration-token", c.registrationToken)}
          /\ inv' = [inv EXCEPT ![d] = [c EXCEPT !.pc = "createCredentialsSecret"]]
          /\ UNCHANGED failuresLeft
       \/ /\ SecretExists(c.domain.namespace, c.domain.name \o "-registration-token")
          /\ inv' = [inv EXCEPT ![d] = [c EXCEPT !.pc = "createCredentialsSecret"]]
          /\ UNCHANGED <<secrets, failuresLeft>>
       \/ /\ CanFail
          /\ inv' = [inv EXCEPT ![d] = CreateCatch(c, "secret creation failed", FALSE)]
          /\ failuresLeft' = Spend
          /\ UNCHANGED secrets
    /\ UNCHANGED <<queueVars, store, remote, clock>>

\* reconcileDomain once the secrets exist: the Ready status
Created(c) ==
    LET c1 == [c EXCEPT !.rootUserCredentials = c.takaroDomain.rootUser,
                        !.newPhase = "Ready"]
        k1 == updateCondition(c1.conditions, "Ready", "True", "DomainCreated",
                              "Domain has been successfully created in Takaro", clock)
        k2 == updateCondition(k1, "Synced", "True", "SpecSynced",
                              "Domain configuration is synchronized with Takaro", clock)
        k3 == updateCondition(k2, "Error", "False", "NoError", "No errors", clock)
    IN  [c1 EXCEPT !.conditions = k3, !.pc = "updateStatus"]

\* createSecrets: createNamespacedSecret of the root-credentials secret
CreateCredentialsSecret(d) ==
    LET c == inv[d] IN
    /\ c.pc = "createCredentialsSecret"
    /\ \/ /\ ~SecretExists(c.domain.namespace, c.domain.name \o "-root-credentials")
          /\ secrets' = secrets \cup
                {OwnedSecret(c.domain, "-root-credentials", c.takaroDomain.rootUser)}
          /\ inv' = [inv EXCEPT ![d] = Created(c)]
          /\ UNCHANGED failuresLeft
       \/ /\ SecretExists(c.domain.namespace, c.domain.name \o "-root-credentials")
          /\ inv' = [inv EXCEPT ![d] = Created(c)]
          /\ UNCHANGED <<secrets, failuresLeft>>
       \/ /\ CanFail
          /\ inv' = [inv EXCEPT ![d] = CreateCatch(c, "secret creation failed", FALSE)]
          /\ failuresLeft' = Spend
          /\ UNCHANGED secrets
    /\ UNCHANGED <<queueVars, store, remote, clock>>

\* takaroClient.updateDomain(externalReferenceId, limits, settings)
UpdateDomain(d) ==
    LET c == inv[d] IN
    /\ c.pc = "updateDomain"
    /\ \/ /\ RemoteHas(c.externalReferenceId)
          /\ inv' = [inv EXCEPT ![d] =
                AfterUpdate([c EXCEPT !.updated = Append(@, "ok"),
                    !.conditions = updateCondition(@, "Synced", "True", "SpecSynced",
                        "Domain configuration has been updated in Takaro", clock)])]
          /\ UNCHANGED failuresLeft
       \/ /\ ~RemoteHas(c.externalReferenceId) \/ CanFail
          /\ inv' = [inv EXCEPT ![d] =
                UpdateCatch([c EXCEPT !.updated =
                        Append(@, IF RemoteHas(c.externalReferenceId) THEN "failed" ELSE "absent")],
                    "Failed to update domain", TRUE)]
          /\ failuresLeft' = IF RemoteHas(c.externalReferenceId) THEN Spend ELSE failuresLeft
    /\ UNCHANGED <<queueVars, store, remote, secrets, clock>>

\* await this.updateResourceStatus(namespace, name, updatedStatus)
UpdateStatus(d) ==
    LET c == inv[d] IN
    /\ c.pc = "updateStatus"
    /\ \/ /\ store[Obj(c)].exists
          /\ store' = [store EXCEPT ![Obj(c)].status = UpdatedStatus(c)]
          /\ inv' = [inv EXCEPT ![d] =
                Return([c EXCEPT !.written = UpdatedStatus(c)], RequeueResult(SteadyRequeueMs))]
          /\ UNCHANGED failuresLeft
       \/ /\ ~store[Obj(c)].exists \/ CanFail
          /\ inv' = [inv EXCEPT ![d] = Catch(c, "status patch failed")]
          /\ failuresLeft' = IF store[Obj(c)].exists THEN Spend ELSE failuresLeft
          /\ UNCHANGED store
    /\ UNCHANGED <<queueVars, remote, secrets, clock>>

\* the catch block of reconcile: getResource again
CatchGetResource(d) ==
    LET c == inv[d] IN
    /\ c.pc = "catchGetResource"
    /\ \/ /\ store[Obj(c)].exists
          /\ inv' = [inv EXCEPT ![d] =
                [c EXCEPT !.pc = "catchUpdateStatus", !.refetched = store[Obj(c)]]]
          /\ UNCHANGED failuresLeft
       \/ /\ ~store[Obj(c)].exists
          /\ inv' = [inv EXCEPT ![d] =
                Return([c EXCEPT !.errorStatus = "skipped"], RequeueResult(ErrorRequeueMs))]
          /\ UNCHANGED failuresLeft
       \/ /\ CanFail
          /\ inv' = [inv EXCEPT ![d] =
                Return([c EXCEPT !.errorStatus = "failed"], RequeueResult(ErrorRequeueMs))]
          /\ failuresLeft' = Spend
    /\ UNCHANGED <<queueVars, store, remote, secrets, clock>>

\* mutant: a catch block that patches the status back unchanged
ErrorStatusUnchanged(c) == [c.refetched.status EXCEPT !.present = TRUE]

\* the status the catch block of reconcile writes
ErrorStatus(c) ==
    [c.refetched.status EXCEPT
        !.present = TRUE,
        !.phase = "Error",
        !.conditions = updateCondition(@, "Error", "True", "ReconcileError",
                                       c.errorMessage, clock)]

\* the catch block of reconcile: updateResourceStatus with the Error condition
CatchUpdateStatus(d) ==
    LET c == inv[d] IN
    /\ c.pc = "catchUpdateStatus"
    /\ \/ /\ store[Obj(c)].exists
          /\ store' = [store EXCEPT ![Obj(c)].status = ErrorStatus(c)]
          /\ inv' = [inv EXCEPT ![d] =
                Return([c EXCEPT !.errorStatus = "written", !.written = ErrorStatus(c)],
                       RequeueResult(ErrorRequeueMs))]
          /\ UNCHANGED failuresLeft
       \/ /\ ~store[Obj(c)].exists \/ CanFail
          /\ inv' = [inv EXCEPT ![d] =
                Return([c EXCEPT !.errorStatus = "failed"], RequeueResult(ErrorRequeueMs))]
          /\ failuresLeft' = IF store[Obj(c)].exists THEN Spend ELSE failuresLeft
          /\ UNCHANGED store
    /\ UNCHANGED <<queueVars, remote, secrets, clock>>

\* handleDeletion: updateResourceStatus({...status, phase: 'Deleting'}); a
\* failure is caught by handleDeletion's own catch block
DeletingStatus(d) ==
    LET c == inv[d]
        status == [c.domain.status EXCEPT !.phase = "Deleting"]
    IN
    /\ c.pc = "deletingStatus"
    /\ \/ /\ store[Obj(c)].exists
          /\ store' = [store EXCEPT ![Obj(c)].status = status]
          /\ inv' = [inv EXCEPT ![d] =
                [c EXCEPT !.pc = "deleteDomain", !.deleting = "ok", !.written = status]]
          /\ UNCHANGED failuresLeft
       \/ /\ ~store[Obj(c)].exists \/ CanFail
          /\ inv' = [inv EXCEPT ![d] =
                DeletionCatch([c EXCEPT !.deleting = "failed"], FALSE, 0)]
          /\ failuresLeft' = IF store[Obj(c)].exists THEN Spend ELSE failuresLeft
          /\ UNCHANGED store
    /\ UNCHANGED <<queueVars, remote, secrets, clock>>

\* TakaroClient.deleteDomain: a 404 of the API is swallowed, every other
\* failure is a TakaroClientError with the API's status code (0: none)
DeleteDomain(d) ==
    LET c == inv[d]
        id == c.domain.status.externalReferenceId
    IN
    /\ c.pc = "deleteDomain"
    /\ \/ /\ RemoteHas(id)
          /\ remote' = [remote EXCEPT !.live = {e \in @ : e.id # id}]
          /\ inv' = [inv EXCEPT ![d] = [c EXCEPT !.pc = "removeFinalizer", !.deleted = Append(@, "ok")]]
          /\ UNCHANGED failuresLeft
       \/ /\ ~RemoteHas(id)
          /\ inv' = [inv EXCEPT ![d] =
                [c EXCEPT !.pc = "removeFinalizer", !.deleted = Append(@, "absent")]]
          /\ UNCHANGED <<remote, failuresLeft>>
       \/ /\ CanFail
          /\ \E statusCode \in {0, 500} :
                inv' = [inv EXCEPT ![d] =
                    DeletionCatch([c EXCEPT !.deleted = Append(@, "failed")],
                                  TRUE, statusCode)]
          /\ failuresLeft' = Spend
          /\ remote' = [remote EXCEPT !.failedDelete = TRUE]
    /\ UNCHANGED <<queueVars, store, secrets, clock>>

\* mutant: a finalizers patch that changes nothing
FinalizedNot(object, finalizers) == object

\* the cluster API applying a finalizers patch: an object that is being deleted
\* and has no finalizer left is removed
Finalized(object, finalizers) ==
    IF object.deletionTimestamp /\ finalizers = <<>>
    THEN Absent
    ELSE [object EXCEPT !.finalizers = finalizers]

\* removeFinalizer: the patch that replaces metadata.finalizers
RemoveFinalizer(d) ==
    LET c == inv[d] IN
    /\ c.pc = "removeFinalizer"
    /\ \/ /\ store[Obj(c)].exists
          /\ store' = [store EXCEPT ![Obj(c)] =
                Finalized(@, Without(c.domain.finalizers, FINALIZER_NAME))]
          /\ inv' = [inv EXCEPT ![d] = Return([c EXCEPT !.removed = "ok"], EmptyResult)]
          /\ UNCHANGED failuresLeft
       \/ /\ ~store[Obj(c)].exists \/ CanFail
          /\ inv' = [inv EXCEPT ![d] =
                Catch([c EXCEPT !.removed = "failed"], "finalizer patch failed")]
          /\ failuresLeft' = IF store[Obj(c)].exists THEN Spend ELSE failuresLeft
          /\ UNCHANGED store
    /\ UNCHANGED <<queueVars, remote, secrets, clock>>

-----------------------------------------------------------------------------
(* The users of the cluster *)

\* kubectl delete: an object with finalizers is only marked
UserDelete(o) ==
    /\ store[o].exists
    /\ ~store[o].deletionTimestamp
    /\ store' = [store EXCEPT ![o] =
                    IF @.finalizers = <<>> THEN Absent
                    ELSE [@ EXCEPT !.deletionTimestamp = TRUE]]
    /\ UNCHANGED <<queueVars, inv, remote, secrets, failuresLeft, clock>>

\* a change of spec: the API server bumps metadata.generation
UserEditSpec(o) ==
    /\ store[o].exists
    /\ ~store[o].deletionTimestamp
    /\ store[o].generation < MaxGeneration
    /\ store' = [store EXCEPT ![o].generation = @ + 1]
    /\ UNCHANGED <<queueVars, inv, remote, secrets, failuresLeft, clock>>

-----------------------------------------------------------------------------
(* The operator: the queue of BaseController driving DomainController *)

InitWorld(budget) ==
    /\ reconcileQueue = <<>>
    /\ timers = EmptyBag
    /\ drain = [d \in DomainDrains |-> IdleDrain]
    /\ inv = [d \in DomainDrains |-> NoInv]
    /\ lastEnqueued = <<>>
    /\ registry = NoRegistry
    /\ store = [o \in DomainObjs |-> NewDomain(o)]
    /\ remote = NoRemote
    /\ secrets = {}
    /\ failuresLeft = budget
    /\ clock = 0

Init == InitWorld(Unlimited)

Next ==
    \/ \E o \in DomainObjs : WatchEvent(o, 1) /\ UNCHANGED <<lastEnqueued, registry>>
    \/ \E d \in DomainDrains : Tick(d, MaxDomainTimers) /\ UNCHANGED <<lastEnqueued, registry>>
    \/ \E d \in DomainDrains : Continue(d) /\ UNCHANGED <<lastEnqueued, registry>>
    \/ \E t \in BagToSet(timers) : TimerFire(t) /\ UNCHANGED <<lastEnqueued, registry>>
    \/ \E d \in DomainDrains : GetResource(d) /\ UNCHANGED <<lastEnqueued, registry>>
    \/ \E d \in DomainDrains : EnsureFinalizer(d) /\ UNCHANGED <<lastEnqueued, registry>>
    \/ \E d \in DomainDrains : CreateDomain(d) /\ UNCHANGED <<lastEnqueued, registry>>
    \/ \E d \in DomainDrains : GenerateRegistrationToken(d) /\ UNCHANGED <<lastEnqueued, registry>>
    \/ \E d \in DomainDrains : CreateTokenSecret(d) /\ UNCHANGED <<lastEnqueued, registry>>
    \/ \E d \in DomainDrains : CreateCredentialsSecret(d) /\ UNCHANGED <<lastEnqueued, registry>>
    \/ \E d \in DomainDrains : UpdateDomain(d) /\ UNCHANGED <<lastEnqueued, registry>>
    \/ \E d \in DomainDrains : UpdateStatus(d) /\ UNCHANGED <<lastEnqueued, registry>>
    \/ \E d \in DomainDrains : CatchGetResource(d) /\ UNCHANGED <<lastEnqueued, registry>>
    \/ \E d \in DomainDrains : CatchUpdateStatus(d) /\ UNCHANGED <<lastEnqueued, registry>>
    \/ \E d \in DomainDrains : DeletingStatus(d) /\ UNCHANGED <<lastEnqueued, registry>>
    \/ \E d \in DomainDrains : DeleteDomain(d) /\ UNCHANGED <<lastEnqueued, registry>>
    \/ \E d \in DomainDrains : RemoveFinalizer(d) /\ UNCHANGED <<lastEnqueued, registry>>
    \/ \E o \in DomainObjs : UserDelete(o) /\ UNCHANGED <<lastEnqueued, registry>>
    \/ \E o \in DomainObjs : UserEditSpec(o) /\ UNCHANGED <<lastEnqueued, registry>>

Spec == Init /\ [][Next]_vars

-----------------------------------------------------------------------------
(* The operator under fair scheduling: setInterval keeps ticking, the event  *)
(* loop resumes every settled await and runs every due timer; only finitely  *)
(* many calls fail.                                                          *)

\* what the event loop runs for a processReconcileQueue() call
Drive(d) ==
    /\ \/ Tick(d, MaxDomainTimers)
       \/ Continue(d)
       \/ GetResource(d)
       \/ EnsureFinalizer(d)
       \/ CreateDomain(d)
       \/ GenerateRegistrationToken(d)
       \/ CreateTokenSecret(d)
       \/ CreateCredentialsSecret(d)
       \/ UpdateDomain(d)
       \/ UpdateStatus(d)
       \/ CatchGetResource(d)
       \/ CatchUpdateStatus(d)
       \/ DeletingStatus(d)
       \/ DeleteDomain(d)
       \/ RemoveFinalizer(d)
    /\ UNCHANGED <<lastEnqueued, registry>>

\* a due requeue timer
Fire == (\E t \in BagToSet(timers) : TimerFire(t)) /\ UNCHANGED <<lastEnqueued, registry>>

\* the status a first reconcile that meets no failure leaves on the object
CreatedStatus(o) ==
    LET c0 == [NewCall([namespace |-> o.namespace, name |-> o.name]) EXCEPT
                  !.domain = [NewDomain(o) EXCEPT !.finalizers = <<FINALIZER_NAME>>]]
        c1 == [reconcileDomain(c0) EXCEPT
                  !.takaroDomain = [id |-> TakaroId(1), rootUser |-> "root"],
                  !.registrationToken = "token-1"]
    IN  UpdatedStatus(Created(c1))

\* an object the user has deleted: it has the finalizer, and the status of a
\* successful creation or (the creation did not get through) none
DeletedDomain(o, created) ==
    [NewDomain(o) EXCEPT !.finalizers = <<FINALIZER_NAME>>,
                         !.deletionTimestamp = TRUE,
                         !.status = IF created THEN CreatedStatus(o) ELSE NoStatus]

\* the secrets of a successful creation
CreatedSecrets(o) ==
    {OwnedSecret(NewDomain(o), "-registration-token", "token-1"),
     OwnedSecret(NewDomain(o), "-root-credentials", "root")}

\* the object has been created in Takaro and then deleted by the user, and the
\* informer has reported the deletion
InitLive ==
    /\ reconcileQueue \in {enqueueReconcile(<<>>, o.namespace, o.name, 1) : o \in DomainObjs}
    /\ timers = EmptyBag
    /\ drain = [d \in DomainDrains |-> IdleDrain]
    /\ inv = [d \in DomainDrains |-> NoInv]
    /\ lastEnqueued = <<>>
    /\ registry = NoRegistry
    /\ clock = 0
    /\ \E created \in BOOLEAN :
          /\ store = [o \in DomainObjs |-> DeletedDomain(o, created)]
          /\ secrets = IF created THEN UNION {CreatedSecrets(o) : o \in DomainObjs} ELSE {}
    /\ remote = [NoRemote EXCEPT
                    !.live = {[id |-> TakaroId(1),
                               externalReference |->
                                   generateExternalReferenceId(NewDomain(o))] :
                              o \in DomainObjs},
                    !.created = 1]
    /\ failuresLeft = MaxFailures

NextLive ==
    \/ \E o \in DomainObjs : WatchEvent(o, 1) /\ UNCHANGED <<lastEnqueued, registry>>
    \/ \E d \in DomainDrains : Tick(d, MaxDomainTimers) /\ UNCHANGED <<lastEnqueued, registry>>
    \/ \E d \in DomainDrains : Continue(d) /\ UNCHANGED <<lastEnqueued, registry>>
    \/ \E t \in BagToSet(timers) : TimerFire(t) /\ UNCHANGED <<lastEnqueued, registry>>
    \/ \E d \in DomainDrains : GetResource(d) /\ UNCHANGED <<lastEnqueued, registry>>
    \/ \E d \in DomainDrains : CatchGetResource(d) /\ UNCHANGED <<lastEnqueued, registry>>
    \/ \E d \in DomainDrains : CatchUpdateStatus(d) /\ UNCHANGED <<lastEnqueued, registry>>
    \/ \E d \in DomainDrains : DeletingStatus(d) /\ UNCHANGED <<lastEnqueued, registry>>
    \/ \E d \in DomainDrains : DeleteDomain(d) /\ UNCHANGED <<lastEnqueued, registry>>
    \/ \E d \in DomainDrains : RemoveFinalizer(d) /\ UNCHANGED <<lastEnqueued, registry>>

LiveSpec ==
    /\ InitLive
    /\ [][NextLive]_vars
    /\ \A d \in DomainDrains : WF_vars(Drive(d))
    /\ WF_vars(Fire)

-----------------------------------------------------------------------------
(* Claims about the deletion path *)

\* the reconcile() calls that have started
Calls == {d \in DOMAIN inv : inv[d].pc # "none"}

Last(seq) == seq[Len(seq)]

HasFinalizer(o) == store[o].exists /\ Includes(store[o].finalizers, FINALIZER_NAME)

\* the call found the object being deleted, with the finalizer and an
\* externalReferenceId
DeletionCase(c) ==
    /\ c.domain.exists
    /\ c.domain.deletionTimestamp
    /\ Includes(c.domain.finalizers, FINALIZER_NAME)
    /\ c.domain.status.externalReferenceId # ""

\* the last deleteDomain of the call succeeded, or found nothing (404)
DeleteConfirmed(c) == c.deleted # <<>> /\ Last(c.deleted) \in {"ok", "absent"}

\* C3 (as claimed): the finalizer is removed only if, in the same reconcile,
\* status.externalReferenceId was empty or deleteDomain returned success or 404;
\* no failure of another step of the deletion path leads to its removal.
C3_RemovedOnlyAfterCleanup ==
    \A d \in Calls :
        inv[d].removed = "ok" =>
            \/ inv[d].domain.status.externalReferenceId = ""
            \/ DeleteConfirmed(inv[d])

\* C4: deletion retry. When the object has deletionTimestamp, the finalizer and
\* an externalReferenceId, and deleteDomain fails (with anything but a 404), the
\* reconcile makes no attempt to remove the finalizer, which stays on the
\* object, and returns requeue = true with requeueAfter 5000.
C4_DeletionRetry ==
    \A d \in Calls :
        (DeletionCase(inv[d]) /\ inv[d].deleted # <<>> /\ Last(inv[d].deleted) = "failed") =>
            /\ inv[d].pc = "done"
            /\ inv[d].result = RequeueResult(ErrorRequeueMs)
            /\ inv[d].removed = "none"
            /\ HasFinalizer(Obj(inv[d]))

\* C4 witness: a reconcile of an object being deleted has returned after its
\* deleteDomain failed.
C4_Witness ==
    \E d \in Calls :
        /\ DeletionCase(inv[d])
        /\ inv[d].deleted = <<"failed">>
        /\ inv[d].pc = "done"

C6_DeletionLiveness ==
    \A o \in DomainObjs :
        (store[o].deletionTimestamp /\ HasFinalizer(o)) ~> ~HasFinalizer(o)

\* C6 witness: the finalizer has been removed from an object being deleted
\* after a deleteDomain call had failed.
C6_Witness ==
    \E d \in Calls :
        /\ DeletionCase(inv[d])
        /\ remote.failedDelete
        /\ inv[d].removed = "ok"
        /\ ~HasFinalizer(Obj(inv[d]))

\* the entities of the Takaro API that were created for the object
EntitiesOf(domain) ==
    {e \in remote.live : e.externalReference = generateExternalReferenceId(domain)}

\* C7 (as claimed): no orphaned external state. Whenever the reconciler removes
\* its finalizer from an object, no entity created for that object is left in
\* the Takaro API.
C7_NoOrphan ==
    \A d \in Calls : inv[d].removed = "ok" => EntitiesOf(inv[d].domain) = {}

-----------------------------------------------------------------------------
(* Claims about the creation path *)

HasCondition(conditions, type, status) ==
    \E i \in 1..Len(conditions) :
        conditions[i].type = type /\ conditions[i].status = status

\* the call took the first-time creation path for an object without status,
\* and no call it made failed
CreationSucceeded(c) ==
    /\ c.pc = "done"
    /\ ~c.thrown
    /\ ~c.domain.status.present
    /\ c.ensured # "failed"
    /\ c.created = "ok"
    /\ c.registrationToken # ""
    /\ c.errorMessage \in {"", "Domain creation did not return root user credentials"}
    /\ c.errorStatus # "failed"

OwnedBy(secret, domain) ==
    /\ secret.owner.kind = "Domain"
    /\ secret.owner.name = domain.name
    /\ secret.owner.uid = domain.uid

\* C8 (as claimed): successful creation. Reconciling an object with no status,
\* when createDomain, generateRegistrationToken, the secret creation and the
\* patches all succeed, persists phase Ready, an externalReferenceId, Ready =
\* True with reason DomainCreated, Synced = True and Error = False, and creates
\* the two secrets, owned by the object.
C8_SuccessfulCreation ==
    \A d \in Calls :
        CreationSucceeded(inv[d]) =>
            LET status == store[Obj(inv[d])].status
                domain == inv[d].domain
            IN  /\ status.phase = "Ready"
                /\ status.externalReferenceId # ""
                /\ \E i \in 1..Len(status.conditions) :
                      /\ status.conditions[i].type = "Ready"
                      /\ status.conditions[i].status = "True"
                      /\ status.conditions[i].reason = "DomainCreated"
                /\ HasCondition(status.conditions, "Synced", "True")
                /\ HasCondition(status.conditions, "Error", "False")
                /\ \A suffix \in {"-registration-token", "-root-credentials"} :
                      \E x \in secrets :
                          /\ x.namespace = domain.namespace
                          /\ x.name = domain.name \o suffix
                          /\ OwnedBy(x, domain)

\* C9 (as claimed): the externalReferenceId persisted by a successful creation
\* is the id createDomain returned.
C9_PersistedIdIsReturnedId ==
    \A d \in Calls :
        (inv[d].pc = "done" /\ inv[d].created = "ok" /\ inv[d].written.phase = "Ready") =>
            inv[d].written.externalReferenceId = inv[d].takaroDomain.id

\* the persisted status after a failed creation
CreationFailureStatus(c) ==
    LET status == store[Obj(c)].status IN
    /\ status.phase = "Error"
    /\ HasCondition(status.conditions, "Error", "True")
    /\ status.externalReferenceId = ""
    /\ c.result = RequeueResult(ErrorRequeueMs)

\* C10 (as claimed): creation failure. If createDomain fails on the first-time
\* creation path, then after the reconcile the persisted status has phase Error
\* and Error = True, externalReferenceId is still empty, and the reconcile
\* returns requeue = true with requeueAfter 5000.
C10_CreationFailure ==
    \A d \in Calls :
        (inv[d].pc = "done" /\ inv[d].created = "failed") => CreationFailureStatus(inv[d])

\* C10 (amended): the same, provided the catch block of reconcile gets to
\* patch the status (its getResource and its updateResourceStatus succeed).
C10_CreationFailureWritten ==
    \A d \in Calls :
        (inv[d].pc = "done" /\ inv[d].created = "failed" /\ inv[d].errorStatus = "written")
            => CreationFailureStatus(inv[d])

\* C10 witness: a reconcile has returned after createDomain failed and the
\* catch block patched the status.
C10_Witness ==
    \E d \in Calls :
        /\ inv[d].pc = "done"
        /\ inv[d].created = "failed"
        /\ inv[d].errorStatus = "written"
        /\ ~inv[d].domain.status.present

\* a condition of the type with the status and the reason
HasConditionReason(conditions, type, status, reason) ==
    \E i \in 1..Len(conditions) :
        /\ conditions[i].type = type
        /\ conditions[i].status = status
        /\ conditions[i].reason = reason

\* C11 (as claimed): on a failed createDomain the status persisted to the store
\* carries Ready = False with reason CreateFailed and Error = True with reason
\* CreateError.
C11_CreateFailureConditions ==
    \A d \in Calls :
        (inv[d].pc = "done" /\ inv[d].created = "failed" /\ inv[d].errorStatus = "written") =>
            LET status == store[Obj(inv[d])].status IN
            /\ HasConditionReason(status.conditions, "Ready", "False", "CreateFailed")
            /\ HasConditionReason(status.conditions, "Error", "True", "CreateError")

\* the call took the creation path and no call it made failed
CreationCallsSucceeded(c) ==
    /\ c.pc = "done"
    /\ ~c.thrown
    /\ c.ensured # "failed"
    /\ c.created = "ok"
    /\ c.registrationToken # ""
    /\ c.errorMessage \in {"", "Domain creation did not return root user credentials"}
    /\ c.errorStatus # "failed"

\* the object the call fetched carries the Error status of a reconcile whose
\* createDomain failed
AfterFailedCreation(c) ==
    /\ c.domain.status.externalReferenceId = ""
    /\ \E i \in 1..Len(c.domain.status.conditions) :
          /\ c.domain.status.conditions[i].type = "Error"
          /\ c.domain.status.conditions[i].status = "True"
          /\ c.domain.status.conditions[i].message = "Failed to create domain"

\* C12 (as claimed): creation failure then recovery. After reconciles in which
\* createDomain failed, the first reconcile whose calls succeed passes
\* createDomain the same derived external reference as every attempt, and
\* persists phase Ready with Ready = True, Synced = True and Error = False.
C12_CreationRecovery ==
    \A d \in Calls :
        /\ inv[d].created # "none" =>
              inv[d].externalReferenceId = generateExternalReferenceId(NewDomain(Obj(inv[d])))
        /\ (AfterFailedCreation(inv[d]) /\ CreationCallsSucceeded(inv[d])) =>
              LET status == store[Obj(inv[d])].status IN
              /\ status.phase = "Ready"
              /\ HasCondition(status.conditions, "Ready", "True")
              /\ HasCondition(status.conditions, "Synced", "True")
              /\ HasCondition(status.conditions, "Error", "False")

-----------------------------------------------------------------------------
(* generateExternalReferenceId on its own: it is applied, at different times, *)
(* to objects of any namespace, name, uid, status and generation.            *)

\* the objects it is applied to
IdSlots == {"x", "y"}

\* metadata.namespace, metadata.name: DNS labels, which may contain '-'
Namespaces == {"a", "a-b"}

Names == {"c", "b-c"}

\* metadata.uid: a prefix of 8 characters and the rest
Uids == {[prefix |-> "3f2a9c1e", rest |-> "-77b0"], [prefix |-> "3f2a9c1e", rest |-> "-0001"]}

NoneDerived == [pc |-> "derive", ids |-> <<>>]

InitId ==
    /\ reconcileQueue = <<>>
    /\ timers = EmptyBag
    /\ drain = [d \in DomainDrains |-> IdleDrain]
    /\ inv = [x \in IdSlots |-> NoneDerived]
    /\ lastEnqueued = <<>>
    /\ registry = NoRegistry
    /\ clock = 0
    /\ store \in [IdSlots -> {[NewDomain([namespace |-> namespace, name |-> name])
                                  EXCEPT !.uid = uid, !.generation = generation,
                                         !.status = IF phase = "" THEN NoStatus
                                                    ELSE [NoStatus EXCEPT !.present = TRUE,
                                                                          !.phase = phase]] :
                               namespace \in Namespaces, name \in Names, uid \in Uids,
                               generation \in 1..MaxGeneration, phase \in {"", "Error"}}]
    /\ remote = NoRemote
    /\ secrets = {}
    /\ failuresLeft = 0

\* reconcileDomain, line 115: the id is derived from the object as it is now
Derive(x) ==
    /\ Len(inv[x].ids) < MaxDerive
    /\ inv' = [inv EXCEPT ![x].ids =
                  Append(@, [id |-> generateExternalReferenceId(store[x]),
                             phase |-> store[x].status.phase,
                             generation |-> store[x].generation,
                             at |-> clock])]
    /\ clock' = clock + 1
    /\ UNCHANGED <<queueVars, lastEnqueued, registry, store, remote, secrets, failuresLeft>>

NextId == \E x \in IdSlots : Derive(x)

SpecId == InitId /\ [][NextId]_vars

SameTriple(a, b) == a.namespace = b.namespace /\ a.name = b.name /\ a.uid = b.uid

\* C13: creation determinism. Deriving the id from the same (namespace, name,
\* uid) yields the same id, whatever the status, the generation and the time.
C13_Determinism ==
    \A x, y \in IdSlots :
        SameTriple(store[x], store[y]) =>
            \A i \in 1..Len(inv[x].ids), j \in 1..Len(inv[y].ids) :
                inv[x].ids[i].id = inv[y].ids[j].id

\* C13 witness: the id has been derived twice from one object, at different
\* times, and from a second object that has the same triple, another status
\* and another generation.
C13_Witness ==
    \E x, y \in IdSlots :
        /\ x # y
        /\ SameTriple(store[x], store[y])
        /\ Len(inv[x].ids) = 2
        /\ inv[x].ids[1].at # inv[x].ids[2].at
        /\ Len(inv[y].ids) >= 1
        /\ inv[x].ids[1].phase # inv[y].ids[1].phase
        /\ inv[x].ids[1].generation # inv[y].ids[1].generation

\* C14 (as claimed): derived-id uniqueness. Two objects whose (namespace, name)
\* pairs differ have different derived ids, also when their uid prefixes are
\* equal and the namespaces or names contain '-'.
C14_Uniqueness ==
    \A x, y \in IdSlots :
        <<store[x].namespace, store[x].name>> # <<store[y].namespace, store[y].name>> =>
            \A i \in 1..Len(inv[x].ids), j \in 1..Len(inv[y].ids) :
                inv[x].ids[i].id # inv[y].ids[j].id

-----------------------------------------------------------------------------
(* Steady state: the update branch of reconcileDomain, under Spec.          *)

\* the object the call fetched is on the update branch: not being deleted, a
\* non-empty externalReferenceId, observedGeneration absent or not the
\* generation
NeedsUpdate(c) ==
    /\ c.domain.exists
    /\ ~c.domain.deletionTimestamp
    /\ c.domain.status.externalReferenceId # ""
    /\ hasSpecChanged(c.domain)

\* the call has returned and neither a cluster call nor Takaro failed on it
NothingFailed(c) ==
    /\ c.pc = "done"
    /\ ~c.thrown
    /\ c.ensured # "failed"
    /\ ~(\E i \in 1..Len(c.updated) : c.updated[i] = "failed")
    /\ c.errorMessage # "status patch failed"
    /\ c.errorStatus # "failed"

UpdateFailed(c) == \E i \in 1..Len(c.updated) : c.updated[i] # "ok"

\* C16 (as claimed): on a failed updateDomain the status persisted to the store
\* has Synced = False and Error = True, and the reconcile returns requeue =
\* true with requeueAfter 5000.
C16_UpdateFailureConditions ==
    \A d \in Calls :
        (inv[d].pc = "done" /\ UpdateFailed(inv[d]) /\ inv[d].errorStatus = "written") =>
            LET status == store[Obj(inv[d])].status IN
            /\ HasCondition(status.conditions, "Synced", "False")
            /\ HasCondition(status.conditions, "Error", "True")
            /\ inv[d].result = RequeueResult(ErrorRequeueMs)

-----------------------------------------------------------------------------
(* Steady state with fairness: an object the operator has created, its      *)
(* periodic reconciles, spec edits, and a finite number of failures.         *)

\* an object after a first reconcile that met no failure
SteadyDomain(o) ==
    [NewDomain(o) EXCEPT !.finalizers = <<FINALIZER_NAME>>,
                         !.status = CreatedStatus(o)]

\* the object has been created in Takaro, and the informer reports it
InitSteady ==
    /\ reconcileQueue \in {enqueueReconcile(<<>>, o.namespace, o.name, 1) : o \in DomainObjs}
    /\ timers = EmptyBag
    /\ drain = [d \in DomainDrains |-> IdleDrain]
    /\ inv = [d \in DomainDrains |-> NoInv]
    /\ lastEnqueued = <<>>
    /\ registry = NoRegistry
    /\ clock = 0
    /\ store = [o \in DomainObjs |-> SteadyDomain(o)]
    /\ secrets = UNION {CreatedSecrets(o) : o \in DomainObjs}
    /\ remote = [NoRemote EXCEPT
                    !.live = {[id |-> TakaroId(1),
                               externalReference |->
                                   generateExternalReferenceId(NewDomain(o))] :
                              o \in DomainObjs},
                    !.created = 1]
    /\ failuresLeft = MaxFailures

NextSteady ==
    \/ \E o \in DomainObjs : WatchEvent(o, 1) /\ UNCHANGED <<lastEnqueued, registry>>
    \/ \E d \in DomainDrains : Tick(d, MaxDomainTimers) /\ UNCHANGED <<lastEnqueued, registry>>
    \/ \E d \in DomainDrains : Continue(d) /\ UNCHANGED <<lastEnqueued, registry>>
    \/ \E t \in BagToSet(timers) : TimerFire(t) /\ UNCHANGED <<lastEnqueued, registry>>
    \/ \E d \in DomainDrains : GetResource(d) /\ UNCHANGED <<lastEnqueued, registry>>
    \/ \E d \in DomainDrains : UpdateDomain(d) /\ UNCHANGED <<lastEnqueued, registry>>
    \/ \E d \in DomainDrains : UpdateStatus(d) /\ UNCHANGED <<lastEnqueued, registry>>
    \/ \E d \in DomainDrains : CatchGetResource(d) /\ UNCHANGED <<lastEnqueued, registry>>
    \/ \E d \in DomainDrains : CatchUpdateStatus(d) /\ UNCHANGED <<lastEnqueued, registry>>
    \/ \E o \in DomainObjs : UserEditSpec(o) /\ UNCHANGED <<lastEnqueued, registry>>

SteadySpec ==
    /\ InitSteady
    /\ [][NextSteady]_vars
    /\ \A d \in DomainDrains : WF_vars(Drive(d))
    /\ WF_vars(Fire)

\* the persisted status is in phase Error and names a Takaro domain
InError(o) ==
    /\ store[o].exists
    /\ store[o].status.phase = "Error"
    /\ store[o].status.externalReferenceId # ""

Recovered(o) ==
    /\ store[o].status.phase = "Ready"
    /\ ~HasCondition(store[o].status.conditions, "Error", "True")

\* no reconcile in progress or last returned has met a failure
NoCallFailing == \A d \in Calls : inv[d].errorMessage = ""

\* C17 (as claimed): Error is recoverable. If from some point on every
\* reconcile succeeds, an object that is in phase Error with a non-empty
\* externalReferenceId eventually has phase Ready and no Error = True.
C17_ErrorRecoverable ==
    (<>[]NoCallFailing) => (\A o \in DomainObjs : InError(o) ~> Recovered(o))

-----------------------------------------------------------------------------
(* The result of reconcile, under Spec.                                      *)

\* the call fetched an object that is not being deleted, and has returned
ReconciledLive(c) ==
    /\ c.pc = "done"
    /\ c.domain.exists
    /\ ~c.domain.deletionTimestamp

ReconciledMissing(c) ==
    /\ c.pc = "done"
    /\ ~c.thrown
    /\ ~c.domain.exists

\* C19: resource not found. When getResource reports 404, reconcile returns
\* the empty result and has made no Takaro call, no status patch, no finalizer
\* patch and (no creation having taken place) no secret.
C19_NotFoundNoOp ==
    \A d \in Calls :
        ReconciledMissing(inv[d]) =>
            /\ inv[d].result = EmptyResult
            /\ inv[d].ensured = "none" /\ inv[d].removed = "none"
            /\ inv[d].created = "none" /\ inv[d].registrationToken = ""
            /\ inv[d].updated = <<>> /\ inv[d].deleted = <<>>
            /\ inv[d].deleting = "none" /\ inv[d].written = NoStatus
            /\ inv[d].errorStatus = "none" /\ inv[d].errorMessage = ""

\* C19 witness: a reconcile of an object the store no longer holds has
\* returned.
C19_Witness ==
    \E d \in Calls :
        /\ ReconciledMissing(inv[d])
        /\ ~store[Obj(inv[d])].exists

\* C20: finalizer before external state. createDomain is called only with the
\* finalizer on the object: the object the reconcile fetched had it, or the
\* finalizer patch of the same reconcile succeeded; and a reconcile whose
\* finalizer patch failed calls neither createDomain nor updateDomain.
C20_FinalizerFirst ==
    \A d \in Calls :
        /\ (inv[d].pc = "createDomain" \/ inv[d].created # "none") =>
              \/ Includes(inv[d].domain.finalizers, FINALIZER_NAME)
              \/ inv[d].ensured = "ok"
        /\ inv[d].pc = "createDomain" => HasFinalizer(Obj(inv[d]))
        /\ inv[d].ensured = "failed" =>
              /\ inv[d].created = "none"
              /\ inv[d].updated = <<>>
              /\ inv[d].pc \notin {"createDomain", "updateDomain"}

\* C20 witness: createDomain has been called in a reconcile that first added
\* the finalizer.
C20_Witness ==
    \E d \in Calls :
        /\ inv[d].created # "none"
        /\ inv[d].ensured = "ok"
        /\ ~Includes(inv[d].domain.finalizers, FINALIZER_NAME)

-----------------------------------------------------------------------------
(* The Domain shared with another controller, which keeps a finalizer of    *)
(* its own on it.                                                            *)

OTHER_FINALIZER == "other.io/cleanup"

\* another controller patches its own finalizer: onto an object that is not
\* being deleted, or off an object that has it
OtherController(o) ==
    /\ store[o].exists
    /\ \/ /\ ~store[o].deletionTimestamp
          /\ ~Includes(store[o].finalizers, OTHER_FINALIZER)
          /\ store' = [store EXCEPT ![o].finalizers = Append(@, OTHER_FINALIZER)]
       \/ /\ Includes(store[o].finalizers, OTHER_FINALIZER)
          /\ store' = [store EXCEPT ![o] =
                          Finalized(@, Without(@.finalizers, OTHER_FINALIZER))]
    /\ UNCHANGED <<queueVars, inv, remote, secrets, failuresLeft, clock>>

NextShared ==
    \/ Next
    \/ \E o \in DomainObjs : OtherController(o) /\ UNCHANGED <<lastEnqueued, registry>>

SpecShared == Init /\ [][NextShared]_vars

\* the finalizers of the object that are not the operator's (none once the
\* object is gone)
ForeignFinalizers(object) ==
    IF object.exists THEN Without(object.finalizers, FINALIZER_NAME) ELSE <<>>

\* C21 (as claimed): spec ownership. A step of a reconcile leaves the object's
\* identity, spec (its generation) and deletionTimestamp as they are, and in
\* metadata.finalizers it adds or removes only FINALIZER_NAME: the finalizers
\* of other controllers stay in place.
C21_SpecOwnership ==
    [][\A o \in DomainObjs :
          (inv' # inv /\ store[o].exists) =>
              /\ ForeignFinalizers(store'[o]) = ForeignFinalizers(store[o])
              /\ store'[o].exists =>
                    /\ store'[o].generation = store[o].generation
                    /\ store'[o].uid = store[o].uid
                    /\ store'[o].deletionTimestamp = store[o].deletionTimestamp]_vars

-----------------------------------------------------------------------------
(* The creation path with two processReconcileQueue calls in progress: a    *)
(* tick of setInterval starts a drain while the previous one is awaiting.   *)
(* Requeue timers are set but none comes due within the behaviours.         *)

InitOverlap ==
    /\ reconcileQueue = <<>>
    /\ timers = EmptyBag
    /\ drain = [d \in Drains |-> IdleDrain]
    /\ inv = [d \in Drains |-> NoInv]
    /\ lastEnqueued = <<>>
    /\ registry = NoRegistry
    /\ store = [o \in DomainObjs |-> NewDomain(o)]
    /\ remote = NoRemote
    /\ secrets = {}
    /\ failuresLeft = MaxFailures
    /\ clock = 0

NextOverlap ==
    \/ \E o \in DomainObjs : WatchEvent(o, 1) /\ UNCHANGED <<lastEnqueued, registry>>
    \/ \E d \in Drains : Tick(d, MaxTimers) /\ UNCHANGED <<lastEnqueued, registry>>
    \/ \E d \in Drains : Continue(d) /\ UNCHANGED <<lastEnqueued, registry>>
    \/ \E d \in Drains : GetResource(d) /\ UNCHANGED <<lastEnqueued, registry>>
    \/ \E d \in Drains : EnsureFinalizer(d) /\ UNCHANGED <<lastEnqueued, registry>>
    \/ \E d \in Drains : CreateDomain(d) /\ UNCHANGED <<lastEnqueued, registry>>
    \/ \E d \in Drains : GenerateRegistrationToken(d) /\ UNCHANGED <<lastEnqueued, registry>>
    \/ \E d \in Drains : CreateTokenSecret(d) /\ UNCHANGED <<lastEnqueued, registry>>
    \/ \E d \in Drains : CreateCredentialsSecret(d) /\ UNCHANGED <<lastEnqueued, registry>>
    \/ \E d \in Drains : UpdateStatus(d) /\ UNCHANGED <<lastEnqueued, registry>>
    \/ \E d \in Drains : CatchGetResource(d) /\ UNCHANGED <<lastEnqueued, registry>>
    \/ \E d \in Drains : CatchUpdateStatus(d) /\ UNCHANGED <<lastEnqueued, registry>>

SpecOverlap == InitOverlap /\ [][NextOverlap]_vars

\* C22 (as claimed): externalReferenceId is write-once. Once the persisted
\* status of an object carries a non-empty externalReferenceId, no step
\* changes or clears it.
C22_WriteOnce ==
    [][\A o \in DomainObjs :
          (/\ store[o].exists
           /\ store'[o].exists
           /\ store'[o].uid = store[o].uid
           /\ store[o].status.externalReferenceId # "") =>
              store'[o].status.externalReferenceId = store[o].status.externalReferenceId]_vars

-----------------------------------------------------------------------------
(* StatusUpdater on its own: a condition list, and updateCondition and      *)
(* mergeConditions applied to it with arguments drawn from small sets.      *)

\* mutant: every update is pushed
mergeConditionsPushing(existing, updates) == existing \o updates

\* StatusUpdater.mergeConditions
RECURSIVE mergeConditions(_, _)
mergeConditions(existing, updates) ==
    IF updates = <<>> THEN existing
    ELSE LET update == Head(updates)
             index == FindIndex(existing, update.type)
         IN  mergeConditions(IF index = 0 THEN Append(existing, update)
                             ELSE [existing EXCEPT ![index] = update],
                             Tail(updates))

CondSlots == {"conditions"}

CondTypes == {"Ready", "Error"}

CondStatuses == {"True", "False"}

CondReasons == {"DomainReady", "ReconcileError"}

CondMessages == {"m1", "m2"}

\* a condition as a caller of mergeConditions builds it at the time
ConditionsAt(now) ==
    {[type |-> type, status |-> status, reason |-> "DomainReady", message |-> "m1",
      lastTransitionTime |-> now] : type \in CondTypes, status \in CondStatuses}

\* lists of at most two conditions
ListsAt(now) ==
    {<<>>} \cup {<<a>> : a \in ConditionsAt(now)}
           \cup {<<a, b>> : a \in ConditionsAt(now), b \in ConditionsAt(now)}

\* at most one condition per type
UniqueTypes(conditions) ==
    \A i, j \in 1..Len(conditions) : conditions[i].type = conditions[j].type => i = j

NoArg == [type |-> "", status |-> "", reason |-> "", message |-> ""]

\* a condition list as a status holds it, before any call: conditions,
\* the list before the last call (prev), the last call (op, arg, updates, at)
InitCond ==
    /\ reconcileQueue = <<>>
    /\ timers = EmptyBag
    /\ drain = [d \in DomainDrains |-> IdleDrain]
    /\ lastEnqueued = <<>>
    /\ registry = NoRegistry
    /\ clock = 1
    /\ inv \in [CondSlots -> {[pc |-> "apply", conditions |-> l, prev |-> l, op |-> "none",
                               arg |-> NoArg, updates |-> <<>>, at |-> 0, n |-> 0] :
                              l \in {x \in ListsAt(0) : UniqueTypes(x)}}]
    /\ store = [o \in DomainObjs |-> NewDomain(o)]
    /\ remote = NoRemote
    /\ secrets = {}
    /\ failuresLeft = 0

\* conditions = StatusUpdater.updateCondition(conditions, type, status, reason, message)
UpdateCondition(s) ==
    /\ inv[s].n < MaxApply
    /\ \E type \in CondTypes, status \in CondStatuses, reason \in CondReasons,
          message \in CondMessages :
          inv' = [inv EXCEPT ![s] =
                     [@ EXCEPT !.conditions = updateCondition(@, type, status, reason,
                                                              message, clock),
                               !.prev = inv[s].conditions,
                               !.op = "update",
                               !.arg = [type |-> type, status |-> status,
                                        reason |-> reason, message |-> message],
                               !.updates = <<>>,
                               !.at = clock,
                               !.n = @ + 1]]
    /\ clock' = clock + 1
    /\ UNCHANGED <<queueVars, lastEnqueued, registry, store, remote, secrets, failuresLeft>>

\* conditions = StatusUpdater.mergeConditions(conditions, updates)
MergeConditions(s) ==
    /\ inv[s].n < MaxApply
    /\ \E updates \in ListsAt(clock) :
          inv' = [inv EXCEPT ![s] =
                     [@ EXCEPT !.conditions = mergeConditions(@, updates),
                               !.prev = inv[s].conditions,
                               !.op = "merge",
                               !.arg = NoArg,
                               !.updates = updates,
                               !.at = clock,
                               !.n = @ + 1]]
    /\ clock' = clock + 1
    /\ UNCHANGED <<queueVars, lastEnqueued, registry, store, remote, secrets, failuresLeft>>

NextCond ==
    \/ \E s \in CondSlots : UpdateCondition(s)
    \/ \E s \in CondSlots : MergeConditions(s)

SpecCond == InitCond /\ [][NextCond]_vars

\* C23 (as claimed): an upsert on an existing type changes lastTransitionTime
\* if and only if the new status differs from the existing status, and then to
\* the current time; the same arguments again, or another reason or message
\* only, keep the original lastTransitionTime.
C23_TransitionTime ==
    \A s \in CondSlots :
        LET c == inv[s]
            i == FindIndex(c.prev, c.arg.type)
        IN  (c.op = "update" /\ i # 0) =>
                /\ (c.conditions[i].lastTransitionTime = c.prev[i].lastTransitionTime)
                      <=> (c.arg.status = c.prev[i].status)
                /\ c.arg.status # c.prev[i].status => c.conditions[i].lastTransitionTime = c.at

TypesOf(conditions) == {conditions[i].type : i \in 1..Len(conditions)}

\* the types the last call was given
Touched(c) == IF c.op = "update" THEN {c.arg.type} ELSE TypesOf(c.updates)

\* C24: condition uniqueness. Starting from a list with at most one condition
\* per type, after any calls of updateCondition and mergeConditions the list
\* has at most one condition per type; a call keeps every existing type at its
\* position, leaves the conditions of types it was not given as they were, and
\* puts the condition of a new type behind the existing ones.
C24_ConditionUniqueness ==
    \A s \in CondSlots :
        LET c == inv[s] IN
        /\ UniqueTypes(c.conditions)
        /\ c.op # "none" =>
              /\ Len(c.conditions) >= Len(c.prev)
              /\ Touched(c) \subseteq TypesOf(c.conditions)
              /\ \A i \in 1..Len(c.prev) :
                    /\ c.conditions[i].type = c.prev[i].type
                    /\ c.prev[i].type \notin Touched(c) => c.conditions[i] = c.prev[i]
              /\ \A i \in (Len(c.prev) + 1)..Len(c.conditions) :
                    c.conditions[i].type \in Touched(c) \ TypesOf(c.prev)

\* C24 witness: one mergeConditions call has replaced a condition of an
\* existing type in place and appended one of a new type.
C24_Witness ==
    \E s \in CondSlots :
        LET c == inv[s] IN
        /\ c.op = "merge"
        /\ Len(c.conditions) > Len(c.prev)
        /\ \E i \in 1..Len(c.prev) : c.conditions[i] # c.prev[i]

-----------------------------------------------------------------------------
(* The queue when reconcile() throws, under SpecQueue.                       *)

\* reconcile() has thrown in drain d, which has not yet gone on
ThrownIn(d) == drain[d].pc = "await" /\ inv[d].pc = "done" /\ inv[d].thrown

\* C25: failure isolation in the queue. When reconcile for a key throws during
\* a drain, the drain sets a timer of 5000 ms for the key and goes on: with the
\* next request of its snapshot, or, after the last one, back to idle so that
\* a later tick starts a drain; and a timer that comes due puts its key into
\* the queue.
C25_FailureIsolation ==
    [][/\ \A d \in Drains :
            (ThrownIn(d) /\ drain'[d] # drain[d]) =>
                LET dr == drain[d]
                    K == dr.requests[dr.i]
                IN  /\ timers' = timers (+) SetToBag({[namespace |-> K.namespace,
                                                       name |-> K.name,
                                                       delay |-> ErrorRequeueMs]})
                    /\ IF dr.i < Len(dr.requests)
                       THEN /\ drain'[d].pc = "await"
                            /\ drain'[d].i = dr.i + 1
                            /\ inv'[d] = NewCall(dr.requests[dr.i + 1])
                       ELSE /\ drain'[d] = IdleDrain
                            /\ inv'[d] = NoInv
       /\ \A t \in BagToSet(timers) :
            timers' = timers (-) SetToBag({t}) =>
                MapHas(reconcileQueue', EnqueueKey(t.namespace, t.name))]_vars

\* C25 witness: reconcile has thrown for a key of a drain whose snapshot holds
\* further keys.
C25_Witness ==
    \E d \in Drains : ThrownIn(d) /\ drain[d].i < Len(drain[d].requests)

-----------------------------------------------------------------------------
(* ControllerRegistry and BaseController.start / stop: each controller's    *)
(* fields, the position of its start() and stop() calls, and the position   *)
(* of startAll() / stopAll().                                                *)

\* the names controllers are registered under
ControllerNames == {"domain", "mockServer", "user"}

\* a controller as constructed. informer: this.informer is set; watching: an
\* informer of the controller holds a watch and delivers events; stopped: the
\* informer this.informer refers to has had stop() called on it
NewController ==
    [isRunning |-> FALSE, informer |-> FALSE, watching |-> FALSE, stopped |-> FALSE,
     reconcileIntervalId |-> FALSE, start |-> "none", stop |-> "none",
     variant |-> 1,             \* which BaseController of the file: 1 (line 22) or 2 (line 289)
     restartTimers |-> 0,       \* setTimeout callbacks of the 'error' handler
     rewatch |-> 0]             \* setupWatch() calls of those callbacks, awaiting

\* start() up to its await: setupWatch() makes the informer and awaits
\* informer.start()
StartCall(c) ==
    IF c.isRunning
    THEN [c EXCEPT !.start = "returned"]
    ELSE [c EXCEPT !.isRunning = TRUE, !.informer = (c.variant = 1), !.stopped = FALSE,
                   !.start = "setupWatch", !.stop = "none"]

\* the end of stop(): clearInterval, reconcileQueue.clear()
StopEnd(c) == [c EXCEPT !.reconcileIntervalId = FALSE, !.stop = "returned"]

\* stop() up to its await of informer.stop(), or to its end
StopCall(c) ==
    IF c.informer
    THEN [c EXCEPT !.isRunning = FALSE, !.watching = FALSE, !.stopped = TRUE,
                   !.stop = "informerStop"]
    ELSE StopEnd([c EXCEPT !.isRunning = FALSE])

InitRegistry ==
    /\ reconcileQueue = <<>>
    /\ timers = EmptyBag
    /\ drain = [d \in DomainDrains |-> IdleDrain]
    /\ inv = [d \in DomainDrains |-> NoInv]
    /\ lastEnqueued = <<>>
    /\ store = [o \in DomainObjs |-> Absent]
    /\ remote = NoRemote
    /\ secrets = {}
    /\ failuresLeft = 0
    /\ clock = 0
    /\ registry = [pc |-> "idle", failed |-> FALSE,
                   controllers |-> [n \in ControllerNames |-> NewController]]

\* startAll(): controllers.map(controller => controller.start())
StartAll ==
    /\ registry.pc = "idle"
    /\ registry' = [registry EXCEPT
                       !.pc = "startAll",
                       !.controllers = [n \in ControllerNames |-> StartCall(@[n])]]
    /\ UNCHANGED <<queueVars, inv, lastEnqueued, worldVars>>

\* informer.start() resolves: start() goes on to startReconcileLoop(). An
\* informer that was stopped while it was starting may or may not end up
\* holding a watch.
InformerStarted(n) ==
    LET c == registry.controllers[n] IN
    /\ c.start = "setupWatch"
    /\ \E watching \in IF c.stopped THEN BOOLEAN ELSE {TRUE} :
          registry' = [registry EXCEPT !.controllers[n] =
                          [c EXCEPT !.watching = watching,
                                    !.reconcileIntervalId = TRUE,
                                    !.start = "returned"]]
    /\ UNCHANGED <<queueVars, inv, lastEnqueued, worldVars>>

\* informer.start() rejects: start() rejects
InformerFailed(n) ==
    LET c == registry.controllers[n] IN
    /\ c.start = "setupWatch"
    /\ registry' = [registry EXCEPT !.controllers[n] = [c EXCEPT !.start = "rejected"]]
    /\ UNCHANGED <<queueVars, inv, lastEnqueued, worldVars>>

\* Promise.all resolves: every start() has returned
StartAllResolved ==
    /\ registry.pc = "startAll"
    /\ \A n \in ControllerNames : registry.controllers[n].start = "returned"
    /\ registry' = [registry EXCEPT !.pc = "resolved"]
    /\ UNCHANGED <<queueVars, inv, lastEnqueued, worldVars>>

\* Promise.all rejects with the first start() that does: the catch block of
\* startAll calls stopAll(), which calls every stop()
StartAllCatch ==
    /\ registry.pc = "startAll"
    /\ \E n \in ControllerNames : registry.controllers[n].start = "rejected"
    /\ registry' = [registry EXCEPT
                       !.pc = "stopAll", !.failed = TRUE,
                       !.controllers = [n \in ControllerNames |-> StopCall(@[n])]]
    /\ UNCHANGED <<queueVars, inv, lastEnqueued, worldVars>>

\* stopAll() called on a started registry (shutdown)
StopAll ==
    /\ registry.pc = "resolved"
    /\ registry' = [registry EXCEPT
                       !.pc = "stopAll",
                       !.controllers = [n \in ControllerNames |-> StopCall(@[n])]]
    /\ UNCHANGED <<queueVars, inv, lastEnqueued, worldVars>>

\* stop() after informer.stop(): this.informer = undefined, and the end
StopContinue(n) ==
    LET c == registry.controllers[n] IN
    /\ c.stop = "informerStop"
    /\ registry' = [registry EXCEPT !.controllers[n] = StopEnd([c EXCEPT !.informer = FALSE])]
    /\ reconcileQueue' = <<>>
    /\ UNCHANGED <<timers, drain, inv, lastEnqueued, worldVars>>

\* stopAll() returns; the catch block of startAll rethrows
StopAllReturned ==
    /\ registry.pc = "stopAll"
    /\ \A n \in ControllerNames : registry.controllers[n].stop = "returned"
    /\ registry' = [registry EXCEPT !.pc = IF registry.failed THEN "rejected" ELSE "stopped"]
    /\ UNCHANGED <<queueVars, inv, lastEnqueued, worldVars>>

NextRegistry ==
    \/ StartAll
    \/ \E n \in ControllerNames : InformerStarted(n)
    \/ \E n \in ControllerNames : InformerFailed(n)
    \/ StartAllResolved
    \/ StartAllCatch
    \/ StopAll
    \/ \E n \in ControllerNames : StopContinue(n)
    \/ StopAllReturned

SpecRegistry == InitRegistry /\ [][NextRegistry]_vars

\* every start() call of startAll has settled
StartsSettled ==
    \A n \in ControllerNames : registry.controllers[n].start \in {"returned", "rejected"}

\* C26 (as claimed): all-or-nothing startup. When startAll has rejected and
\* every start() call has settled, no controller is running, holds a watch or
\* has its setInterval timer active.
C26_AllOrNothing ==
    (registry.pc = "rejected" /\ StartsSettled) =>
        \A n \in ControllerNames :
            /\ ~registry.controllers[n].isRunning
            /\ ~registry.controllers[n].watching
            /\ ~registry.controllers[n].reconcileIntervalId

-----------------------------------------------------------------------------
(* One controller with its queue: start(), stop(), the informer's events    *)
(* and errors, the setInterval ticks, and an abstract reconcile().          *)

RunningNames == {"domain"}

\* the second BaseController's stop(): no await, the informer is a local of
\* setupWatch and is not stopped
StopCall2(c) ==
    IF ~c.isRunning
    THEN [c EXCEPT !.stop = "returned"]
    ELSE StopEnd([c EXCEPT !.isRunning = FALSE])

InitController ==
    /\ reconcileQueue = <<>>
    /\ timers = EmptyBag
    /\ drain = [d \in DomainDrains |-> IdleDrain]
    /\ inv = [d \in DomainDrains |-> NoInv]
    /\ lastEnqueued = <<>>
    /\ store = [o \in DomainObjs |-> Absent]
    /\ remote = NoRemote
    /\ secrets = {}
    /\ failuresLeft = 0
    /\ clock = 0
    /\ \E variant \in {1, 2} :
          registry = [pc |-> "idle", failed |-> FALSE,
                      controllers |-> [n \in RunningNames |->
                                          [NewController EXCEPT !.variant = variant]]]

\* controller.start()
Start(n) ==
    LET c == registry.controllers[n] IN
    /\ c.start # "setupWatch"
    /\ c.stop # "informerStop"
    /\ registry' = [registry EXCEPT !.controllers[n] = StartCall(c)]
    /\ UNCHANGED <<queueVars, inv, lastEnqueued, worldVars>>

\* controller.stop()
Stop(n) ==
    LET c == registry.controllers[n] IN
    /\ c.stop # "informerStop"
    /\ registry' = [registry EXCEPT !.controllers[n] =
                       IF c.variant = 1 THEN StopCall(c) ELSE StopCall2(c)]
    /\ reconcileQueue' = IF (c.variant = 1 /\ c.informer) \/ (c.variant = 2 /\ ~c.isRunning)
                         THEN reconcileQueue ELSE <<>>
    /\ UNCHANGED <<timers, drain, inv, lastEnqueued, worldVars>>

\* the informer's 'add' / 'update' / 'delete' handlers
InformerEvent(n, o) ==
    /\ registry.controllers[n].watching
    /\ WatchEvent(o, 1)
    /\ UNCHANGED <<lastEnqueued, registry>>

\* a tick of the timer startReconcileLoop set
IntervalTick(n, d) ==
    /\ registry.controllers[n].reconcileIntervalId
    /\ Tick(d, MaxTimers)
    /\ UNCHANGED <<lastEnqueued, registry>>

\* the informer's 'error' handler: a 410 sets a timer of 1000 ms
WatchError(n, statusCode) ==
    LET c == registry.controllers[n] IN
    /\ c.watching
    /\ statusCode = 410 => c.restartTimers + c.rewatch < MaxRestartTimers
    /\ registry' = [registry EXCEPT !.controllers[n] =
                       [c EXCEPT !.watching = FALSE,
                                 !.restartTimers = IF statusCode = 410 THEN @ + 1 ELSE @]]
    /\ UNCHANGED <<queueVars, inv, lastEnqueued, worldVars>>

\* the callback of that timer: setupWatch(), in the first BaseController only
\* if isRunning
RestartFire(n) ==
    LET c == registry.controllers[n] IN
    /\ c.restartTimers > 0
    /\ registry' = [registry EXCEPT !.controllers[n] =
                       IF c.variant = 2 \/ c.isRunning
                       THEN [c EXCEPT !.restartTimers = @ - 1, !.rewatch = @ + 1,
                                      !.informer = (c.variant = 1), !.stopped = FALSE]
                       ELSE [c EXCEPT !.restartTimers = @ - 1]]
    /\ UNCHANGED <<queueVars, inv, lastEnqueued, worldVars>>

\* informer.start() of a setupWatch() call made by the timer callback settles
SetupWatchSettled(n) ==
    LET c == registry.controllers[n] IN
    /\ c.rewatch > 0
    /\ \E watching \in IF c.stopped THEN BOOLEAN ELSE {TRUE, c.watching} :
          registry' = [registry EXCEPT !.controllers[n] =
                          [c EXCEPT !.rewatch = @ - 1, !.watching = watching]]
    /\ UNCHANGED <<queueVars, inv, lastEnqueued, worldVars>>

NextController ==
    \/ \E n \in RunningNames : Start(n)
    \/ \E n \in RunningNames : InformerStarted(n)
    \/ \E n \in RunningNames : InformerFailed(n)
    \/ \E n \in RunningNames : Stop(n)
    \/ \E n \in RunningNames : StopContinue(n)
    \/ \E n \in RunningNames, o \in QueueObjs : InformerEvent(n, o)
    \/ \E n \in RunningNames, d \in DomainDrains : IntervalTick(n, d)
    \/ \E d \in DomainDrains : AbstractReconcile(d) /\ UNCHANGED <<lastEnqueued, registry>>
    \/ \E d \in DomainDrains : Continue(d) /\ UNCHANGED <<lastEnqueued, registry>>
    \/ \E t \in BagToSet(timers) : TimerFire(t) /\ UNCHANGED <<lastEnqueued, registry>>
    \/ \E n \in RunningNames, statusCode \in {410, 500} : WatchError(n, statusCode)
    \/ \E n \in RunningNames : RestartFire(n)
    \/ \E n \in RunningNames : SetupWatchSettled(n)

SpecController == InitController /\ [][NextController]_vars

\* stop() of the first BaseController has returned and start() has not been
\* called since
Stopped(n) ==
    /\ registry.controllers[n].variant = 1
    /\ registry.controllers[n].stop = "returned"
    /\ ~registry.controllers[n].isRunning

\* C27 (as claimed): stop is complete. While the controller is stopped the
\* queue is empty and no reconcile() call begins.
C27_StopComplete ==
    /\ [](\A n \in RunningNames : Stopped(n) => reconcileQueue = <<>>)
    /\ [][\A n \in RunningNames :
             Stopped(n) => \A d \in DomainDrains :
                              ~(inv'[d] # inv[d] /\ inv'[d].pc = "getResource")]_vars

\* C28: when the timer set by a 410 watch error comes due, the subscription is
\* set up again if and only if the controller is running at that moment, and
\* the step reaches neither the queue nor any reconcile invocation.
C28_StaleWatchRecovery ==
    [][\A n \in RunningNames :
          LET c == registry.controllers[n]
              c2 == registry'.controllers[n] IN
          c2.restartTimers < c.restartTimers =>
              /\ (c2.rewatch = c.rewatch + 1) <=> c.isRunning
              /\ UNCHANGED <<queueVars, inv>>]_vars

\* ---------------------------------------------------------------------------
\* TakaroClient.retryOperation(operation, options): one call, with the outcome
\* of each await operation() drawn from the status codes an error can carry.
\* ---------------------------------------------------------------------------

\* error.response?.status of an error without a response (a connection failure)
NoStatusCode == 0

\* the statuses of the errors operation() rejects with
StatusCodes == {NoStatusCode, 302, 400, 404, 429, 499, 500, 503}

\* the maxRetries the callers pass; the default is 3
MaxRetriesOptions == {2, 3}

RetrySlots == {"retryOperation"}

NoError == [attempt |-> 0, status |-> NoStatusCode, generic |-> FALSE]

\* attempt === maxRetries, with the off-by-one variant first
isLastAttemptLate(attempt, maxRetries) == attempt = maxRetries + 1

isLastAttempt(attempt, maxRetries) == attempt = maxRetries

\* statusCode && statusCode >= 400 && statusCode < 500 && statusCode !== 429,
\* with the variant that leaves 429 terminal first
isClientErrorAll(statusCode) ==
    statusCode # NoStatusCode /\ statusCode >= 400 /\ statusCode < 500

isClientError(statusCode) ==
    statusCode # NoStatusCode /\ statusCode >= 400 /\ statusCode < 500 /\ statusCode # 429

InitRetry ==
    /\ reconcileQueue = <<>>
    /\ timers = EmptyBag
    /\ drain = [d \in DomainDrains |-> IdleDrain]
    /\ lastEnqueued = <<>>
    /\ registry = NoRegistry
    /\ clock = 0
    /\ inv \in [RetrySlots -> {[pc |-> "operation", maxRetries |-> m, attempt |-> 0,
                                outcomes |-> <<>>, result |-> 0, thrown |-> NoError] :
                               m \in MaxRetriesOptions}]
    /\ store = [o \in DomainObjs |-> NewDomain(o)]
    /\ remote = NoRemote
    /\ secrets = {}
    /\ failuresLeft = 0

\* return await operation(): the promise resolves
OperationResolves(s) ==
    LET r == inv[s] IN
    /\ r.pc = "operation"
    /\ inv' = [inv EXCEPT ![s] =
                  [r EXCEPT !.pc = "returned",
                            !.outcomes = Append(@, [ok |-> TRUE, status |-> NoStatusCode]),
                            !.result = r.attempt + 1]]
    /\ UNCHANGED <<queueVars, lastEnqueued, registry, worldVars>>

\* the promise rejects: the catch block throws the error or goes to sleep
OperationRejects(s, statusCode) ==
    LET r == inv[s] IN
    /\ r.pc = "operation"
    /\ inv' = [inv EXCEPT ![s] =
                  IF isLastAttempt(r.attempt, r.maxRetries) \/ isClientError(statusCode)
                  THEN [r EXCEPT !.pc = "thrown",
                                 !.outcomes = Append(@, [ok |-> FALSE, status |-> statusCode]),
                                 !.thrown = [attempt |-> r.attempt + 1, status |-> statusCode,
                                             generic |-> FALSE]]
                  ELSE [r EXCEPT !.pc = "sleep",
                                 !.outcomes = Append(@, [ok |-> FALSE, status |-> statusCode])]]
    /\ UNCHANGED <<queueVars, lastEnqueued, registry, worldVars>>

\* await this.sleep(delay) resolves; attempt++ and the loop condition
\* attempt <= maxRetries, after which only the final throw remains
SleepResolves(s) ==
    LET r == inv[s] IN
    /\ r.pc = "sleep"
    /\ inv' = [inv EXCEPT ![s] =
                  IF r.attempt + 1 <= r.maxRetries
                  THEN [r EXCEPT !.pc = "operation", !.attempt = @ + 1]
                  ELSE [r EXCEPT !.pc = "thrown", !.attempt = @ + 1,
                                 !.thrown = [attempt |-> 0, status |-> NoStatusCode,
                                             generic |-> TRUE]]]
    /\ UNCHANGED <<queueVars, lastEnqueued, registry, worldVars>>

NextRetry ==
    \/ \E s \in RetrySlots : OperationResolves(s)
    \/ \E s \in RetrySlots, statusCode \in StatusCodes : OperationRejects(s, statusCode)
    \/ \E s \in RetrySlots : SleepResolves(s)

SpecRetry == InitRetry /\ [][NextRetry]_vars

\* every operation() promise settles and every sleep() timer comes due
LiveSpecRetry == SpecRetry /\ WF_vars(NextRetry)

\* the classification the sentence gives: 4xx other than 429 is terminal; 429,
\* 5xx and the absence of a status are retryable
TerminalCode(c) == c \in (400..499) \ {429}

RetryableCode(c) == c = 429 \/ c \in 500..599 \/ c = NoStatusCode

\* the i-th attempt failed with a status of the set the predicate describes
FailedWith(r, i, P(_)) == ~r.outcomes[i].ok /\ P(r.outcomes[i].status)

\* a terminal failure is the last attempt and is what the call throws
TerminalEnds(r) ==
    \A i \in 1..Len(r.outcomes) :
       FailedWith(r, i, TerminalCode) =>
          /\ i = Len(r.outcomes)
          /\ r.pc = "thrown"
          /\ r.thrown = [attempt |-> i, status |-> r.outcomes[i].status, generic |-> FALSE]

\* after its i-th attempt the call made another one, or is on its way to it
\* (asleep, or awaiting the operation it has called again)
Retried(r, i) ==
    \/ i < Len(r.outcomes)
    \/ r.pc = "sleep"
    \/ r.pc = "operation" /\ r.attempt = i

\* C29, as stated: a failure with a 4xx status other than 429 ends the call (so
\* that a first such failure leaves exactly one attempt) and is rethrown; after
\* a failure with 429, 5xx or no status another attempt is made or is pending.
C29_ErrorClassification ==
    \A s \in RetrySlots :
       LET r == inv[s] IN
       /\ TerminalEnds(r)
       /\ \A i \in 1..Len(r.outcomes) :
             FailedWith(r, i, RetryableCode) => Retried(r, i)

\* C29, amended: the same, the retry being made only when the failure was not
\* that of attempt maxRetries + 1, which is rethrown whatever its status.
C29_ErrorClassificationBounded ==
    \A s \in RetrySlots :
       LET r == inv[s] IN
       /\ TerminalEnds(r)
       /\ \A i \in 1..Len(r.outcomes) :
             FailedWith(r, i, RetryableCode) =>
                IF i <= r.maxRetries
                THEN Retried(r, i)
                ELSE /\ i = Len(r.outcomes)
                     /\ r.pc = "thrown"
                     /\ r.thrown = [attempt |-> i, status |-> r.outcomes[i].status,
                                    generic |-> FALSE]

\* a 429 was retried and the 404 of the second attempt was rethrown at once
C29_Witness ==
    \E s \in RetrySlots :
       LET r == inv[s] IN
       /\ r.pc = "thrown"
       /\ Len(r.outcomes) = 2
       /\ r.outcomes[1].status = 429
       /\ r.outcomes[2].status = 404
       /\ r.maxRetries = 3

\* the call has ended
Settled(r) == r.pc \in {"returned", "thrown"}

RetryBounded(r) ==
    LET k == Len(r.outcomes) IN
    /\ k <= r.maxRetries + 1
    /\ \A i \in 1..(k - 1) : ~r.outcomes[i].ok
    /\ r.pc = "returned" => k > 0 /\ r.outcomes[k].ok /\ r.result = k
    /\ r.pc = "thrown" =>
          /\ k > 0
          /\ ~r.outcomes[k].ok
          /\ r.thrown = [attempt |-> k, status |-> r.outcomes[k].status, generic |-> FALSE]

\* C30: the call makes at most maxRetries + 1 attempts and ends, returning the
\* result of the first attempt that succeeded or throwing the error of its last
\* attempt.
C30_BoundedRetry ==
    /\ [](\A s \in RetrySlots : RetryBounded(inv[s]))
    /\ <>(\A s \in RetrySlots : Settled(inv[s]))

\* maxRetries + 1 attempts were made, all failed with retryable statuses, and the
\* error of the last one was thrown
C30_Witness ==
    \E s \in RetrySlots :
       LET r == inv[s] IN
       /\ r.pc = "thrown"
       /\ Len(r.outcomes) = r.maxRetries + 1
       /\ \A i \in 1..Len(r.outcomes) : FailedWith(r, i, RetryableCode)
       /\ r.thrown.attempt = r.maxRetries + 1

\* ---------------------------------------------------------------------------
\* TakaroClient.calculateDelay(attempt, baseDelay, maxDelay, error): the delay
\* retryOperation sleeps between two attempts. A JavaScript number is a record:
\* NaN, or the integer n (milliseconds; Math.random() is drawn in tenths, which
\* keeps the jitter of the delays below integral).
\* ---------------------------------------------------------------------------

\* the defaults of retryOperation's options; no caller passes others
baseDelay == 1000

maxDelay == 30000

NaN == [nan |-> TRUE, n |-> 0]

Num(n) == [nan |-> FALSE, n |-> n]

\* Math.min(a, b): NaN if either argument is
MathMin(a, b) == IF a.nan \/ b.nan THEN NaN ELSE Num(IF a.n <= b.n THEN a.n ELSE b.n)

\* a * b
Times(a, b) == IF a.nan \/ b.nan THEN NaN ELSE Num(a.n * b.n)

Digits == <<"0", "1", "2", "3", "4", "5", "6", "7", "8", "9">>

IsDigit(ch) == \E i \in 1..Len(Digits) : Digits[i] = ch

DigitValue(ch) == (CHOOSE i \in 1..Len(Digits) : Digits[i] = ch) - 1

RECURSIVE SkipWhiteSpace(_)
SkipWhiteSpace(str) ==
    IF str # <<>> /\ Head(str) = " " THEN SkipWhiteSpace(Tail(str)) ELSE str

\* the value of the longest prefix of digits of str, after the value acc
RECURSIVE ParseDigits(_, _)
ParseDigits(str, acc) ==
    IF str # <<>> /\ IsDigit(Head(str))
    THEN ParseDigits(Tail(str), 10 * acc + DigitValue(Head(str)))
    ELSE acc

\* parseInt(str, 10): white space, a sign, then digits up to the first character
\* that is none; NaN when there is no digit
parseInt(str) ==
    LET t == SkipWhiteSpace(str)
        negative == t # <<>> /\ Head(t) = "-"
        u == IF t # <<>> /\ Head(t) \in {"-", "+"} THEN Tail(t) ELSE t
    IN  IF u = <<>> \/ ~IsDigit(Head(u)) THEN NaN
        ELSE Num(IF negative THEN 0 - ParseDigits(u, 0) ELSE ParseDigits(u, 0))

\* error.response?.headers?.['retry-after']: absent, or the header's text (a
\* number of seconds, or an HTTP date), as a sequence of characters
NoHeader == [present |-> FALSE, text |-> <<>>]

Header(text) == [present |-> TRUE, text |-> text]

RetryAfterHeaders ==
    {NoHeader, Header(<<>>), Header(<<"0">>), Header(<<"5">>), Header(<<"3", "0">>),
     Header(<<"6", "0">>), Header(<<"1", "2", "0">>),
     Header(<<"W", "e", "d", ",", " ", "2", "1", " ", "O", "c", "t">>)}

\* the attempts after which retryOperation sleeps: 0 .. maxRetries - 1
DelayAttempts == 0..2

\* Math.random(), in tenths
Randoms == {0, 5, 9}

RECURSIVE Pow2(_)
Pow2(k) == IF k = 0 THEN 1 ELSE 2 * Pow2(k - 1)

\* the hint counts only if it is truthy: present and not the empty string
calculateDelay(attempt, retryAfter, random) ==
    IF retryAfter.present /\ retryAfter.text # <<>>
    THEN MathMin(Times(parseInt(retryAfter.text), Num(1000)), Num(maxDelay))
    ELSE LET exponentialDelay == baseDelay * Pow2(attempt)
             jitter == (random * exponentialDelay) \div 100
         IN  MathMin(Num(exponentialDelay + jitter), Num(maxDelay))

DelaySlots == {"calculateDelay"}

InitDelay ==
    /\ reconcileQueue = <<>>
    /\ timers = EmptyBag
    /\ drain = [d \in DomainDrains |-> IdleDrain]
    /\ lastEnqueued = <<>>
    /\ registry = NoRegistry
    /\ clock = 0
    /\ inv \in [DelaySlots -> {[pc |-> "call", attempt |-> a, retryAfter |-> h,
                                random |-> r, delay |-> Num(0)] :
                               a \in DelayAttempts, h \in RetryAfterHeaders, r \in Randoms}]
    /\ store = [o \in DomainObjs |-> NewDomain(o)]
    /\ remote = NoRemote
    /\ secrets = {}
    /\ failuresLeft = 0

\* const delay = this.calculateDelay(attempt, baseDelay, maxDelay, error)
CalculateDelay(s) ==
    /\ inv[s].pc = "call"
    /\ inv' = [inv EXCEPT ![s] =
                  [@ EXCEPT !.pc = "sleep",
                            !.delay = calculateDelay(inv[s].attempt, inv[s].retryAfter,
                                                     inv[s].random)]]
    /\ UNCHANGED <<queueVars, lastEnqueued, registry, worldVars>>

NextDelay == \E s \in DelaySlots : CalculateDelay(s)

SpecDelay == InitDelay /\ [][NextDelay]_vars

\* the header is a hint of s seconds: one or more digits and nothing else
IsSeconds(h) == h.present /\ h.text # <<>> /\ \A i \in 1..Len(h.text) : IsDigit(h.text[i])

Min(a, b) == IF a <= b THEN a ELSE b

\* C31: every delay is a number of at most maxDelay; with a retry-after hint of
\* s seconds it is min(s * 1000, maxDelay), otherwise min(baseDelay * 2^attempt +
\* jitter, maxDelay) with a jitter of at most a tenth of the exponential term.
C31_DelayBound ==
    \A s \in DelaySlots :
       LET r == inv[s]
           exponential == baseDelay * Pow2(r.attempt) IN
       r.pc = "sleep" =>
          /\ ~r.delay.nan
          /\ r.delay.n <= maxDelay
          /\ IF IsSeconds(r.retryAfter)
             THEN r.delay.n = Min(ParseDigits(r.retryAfter.text, 0) * 1000, maxDelay)
             ELSE \E jitter \in 0..(exponential \div 10) :
                     r.delay.n = Min(exponential + jitter, maxDelay)

\* ---------------------------------------------------------------------------
\* The operator of Spec under fair scheduling, with any number of failing
\* calls: setInterval keeps ticking, the event loop resumes every settled await
\* and runs every due timer.
\* ---------------------------------------------------------------------------

ResyncSpec ==
    /\ Spec
    /\ \A d \in DomainDrains : WF_vars(Drive(d))
    /\ WF_vars(Fire)

\* the reconcile() the drain awaits has settled (returned or thrown)
Completed(d) == drain[d].pc = "await" /\ inv[d].pc = "done"

\* a reconcile() call has just begun: it awaits its first getResource
Begun(d) == drain[d].pc = "await" /\ inv[d].pc = "getResource"

\* the object of the key is absent or has deletionTimestamp
Gone(o) == ~store[o].exists \/ store[o].deletionTimestamp

\* C32: periodic resync. Every reconcile that has settled, returned or thrown,
\* is followed by another reconcile of the same key, unless the object has gone
\* or is being deleted in the meantime.
C32_PeriodicResync ==
    \A d \in DomainDrains, o \in DomainObjs :
       (Completed(d) /\ Obj(inv[d]) = o) ~> (Gone(o) \/ (Begun(d) /\ Obj(inv[d]) = o))

\* a reconcile of an existing object begun on a request that a requeue timer
\* stored (such a request has no resourceVersion), while no timer is left
C32_Witness ==
    \E d \in DomainDrains :
       /\ Begun(d)
       /\ drain[d].requests[drain[d].i].resourceVersion = 0
       /\ ~Gone(Obj(inv[d]))
       /\ store[Obj(inv[d])].status.present
       /\ timers = EmptyBag

\* ---------------------------------------------------------------------------
\* The steady state with overlapping drains: the object of InitSteady, and two
\* processReconcileQueue() calls that setInterval may start one during the
\* other.
\* ---------------------------------------------------------------------------

InitSteadyOverlap ==
    /\ reconcileQueue \in {enqueueReconcile(<<>>, o.namespace, o.name, 1) : o \in DomainObjs}
    /\ timers = EmptyBag
    /\ drain = [d \in Drains |-> IdleDrain]
    /\ inv = [d \in Drains |-> NoInv]
    /\ lastEnqueued = <<>>
    /\ registry = NoRegistry
    /\ clock = 0
    /\ store = [o \in DomainObjs |-> SteadyDomain(o)]
    /\ secrets = UNION {CreatedSecrets(o) : o \in DomainObjs}
    /\ remote = [NoRemote EXCEPT
                    !.live = {[id |-> TakaroId(1),
                               externalReference |->
                                   generateExternalReferenceId(NewDomain(o))] :
                              o \in DomainObjs},
                    !.created = 1]
    /\ failuresLeft = MaxFailures

NextSteadyOverlap ==
    \/ \E o \in DomainObjs : WatchEvent(o, 1) /\ UNCHANGED <<lastEnqueued, registry>>
    \/ \E d \in Drains : Tick(d, MaxTimers) /\ UNCHANGED <<lastEnqueued, registry>>
    \/ \E d \in Drains : Continue(d) /\ UNCHANGED <<lastEnqueued, registry>>
    \/ \E t \in BagToSet(timers) : TimerFire(t) /\ UNCHANGED <<lastEnqueued, registry>>
    \/ \E d \in Drains : GetResource(d) /\ UNCHANGED <<lastEnqueued, registry>>
    \/ \E d \in Drains : UpdateDomain(d) /\ UNCHANGED <<lastEnqueued, registry>>
    \/ \E d \in Drains : UpdateStatus(d) /\ UNCHANGED <<lastEnqueued, registry>>
    \/ \E d \in Drains : CatchGetResource(d) /\ UNCHANGED <<lastEnqueued, registry>>
    \/ \E d \in Drains : CatchUpdateStatus(d) /\ UNCHANGED <<lastEnqueued, registry>>
    \/ \E o \in DomainObjs : UserEditSpec(o) /\ UNCHANGED <<lastEnqueued, registry>>

SpecSteadyOverlap == InitSteadyOverlap /\ [][NextSteadyOverlap]_vars

\* the call has fetched an object that is not being deleted, has an
\* externalReferenceId and whose observedGeneration is its generation
SteadyRead(c) ==
    /\ c.pc \notin {"none", "getResource"}
    /\ c.domain.exists
    /\ ~c.domain.deletionTimestamp
    /\ c.domain.status.externalReferenceId # ""
    /\ c.domain.status.observedGeneration = c.domain.generation

\* the conditions of one type, in order
RECURSIVE OfType(_, _)
OfType(conditions, type) ==
    IF conditions = <<>> THEN <<>>
    ELSE IF Head(conditions).type = type
         THEN <<Head(conditions)>> \o OfType(Tail(conditions), type)
         ELSE OfType(Tail(conditions), type)

SameSync(s, t) ==
    /\ s.externalReferenceId = t.externalReferenceId
    /\ s.observedGeneration = t.observedGeneration
    /\ OfType(s.conditions, "Synced") = OfType(t.conditions, "Synced")

\* C33: steady-state no-op. No step of a reconcile that read an object with an
\* externalReferenceId and observedGeneration = generation calls createDomain or
\* updateDomain, and none changes the externalReferenceId, the
\* observedGeneration or the Synced condition of the persisted status.
C33_SteadyNoOp ==
    [][\A d \in DOMAIN inv :
          (inv'[d] # inv[d] /\ SteadyRead(inv'[d])) =>
             /\ inv'[d].created = "none"
             /\ inv'[d].updated = <<>>
             /\ SameSync(store[Obj(inv'[d])].status, store'[Obj(inv'[d])].status)]_vars

\* a reconcile that read the steady state has patched the status and returned
C33_Witness ==
    \E d \in DOMAIN inv :
       /\ SteadyRead(inv[d])
       /\ inv[d].pc = "done"
       /\ ~inv[d].thrown
       /\ inv[d].written.present
       /\ inv[d].errorStatus = "none"

\* the calls of the step that patched the status with what reconcileDomain
\* returned
Wrote(d) ==
    /\ inv'[d] # inv[d]
    /\ inv[d].pc = "updateStatus"
    /\ inv'[d].written # inv[d].written

\* the call has made an updateDomain call, and the last one failed
LastUpdateFailed(c) ==
    /\ c.pc \notin {"none", "getResource"}
    /\ c.updated # <<>>
    /\ Last(c.updated) # "ok"

\* the call read an object, not being deleted, with an externalReferenceId and
\* an observedGeneration that is not its generation, and is past ensureFinalizer
StaleRead(c) ==
    /\ c.pc \notin {"none", "getResource", "ensureFinalizer"}
    /\ c.domain.exists
    /\ ~c.domain.deletionTimestamp
    /\ c.ensured # "failed"
    /\ c.domain.status.externalReferenceId # ""
    /\ c.domain.status.observedGeneration # c.domain.generation

\* C34: observedGeneration tracks only applied specs. A reconcile patches the
\* status it computed, with observedGeneration = the generation g it read, only
\* if its createDomain or its updateDomain succeeded or the observedGeneration it
\* read was g already; the steps of a reconcile whose updateDomain failed leave
\* the persisted observedGeneration as it is; and a reconcile that reads an
\* observedGeneration other than the generation calls updateDomain.
C34_ObservedGeneration ==
    /\ [][\A d \in DOMAIN inv :
             /\ Wrote(d) =>
                   /\ inv'[d].written.observedGeneration = inv'[d].domain.generation
                   /\ \/ inv'[d].created = "ok"
                      \/ inv'[d].updated # <<>> /\ Last(inv'[d].updated) = "ok"
                      \/ inv'[d].domain.status.observedGeneration = inv'[d].domain.generation
             /\ (inv'[d] # inv[d] /\ LastUpdateFailed(inv'[d])) =>
                   store'[Obj(inv'[d])].status.observedGeneration =
                      store[Obj(inv'[d])].status.observedGeneration]_vars
    /\ [](\A d \in DOMAIN inv :
             StaleRead(inv[d]) => inv[d].pc = "updateDomain" \/ inv[d].updated # <<>>)

\* after a spec edit a reconcile's updateDomain failed and its catch block wrote
\* the Error status: the persisted observedGeneration is still behind
C34_Witness ==
    \E d \in DOMAIN inv :
       /\ LastUpdateFailed(inv[d])
       /\ inv[d].pc = "done"
       /\ inv[d].errorStatus = "written"
       /\ store[Obj(inv[d])].status.observedGeneration = 1
       /\ store[Obj(inv[d])].generation = 2

\* the call fetched an object that has deletionTimestamp
DeletionRead(c) ==
    /\ c.pc \notin {"none", "getResource"}
    /\ c.domain.exists
    /\ c.domain.deletionTimestamp

OwnFinalizerOn(object) == Includes(object.finalizers, FINALIZER_NAME)

\* C35: no step of a reconcile that read deletionTimestamp calls createDomain or
\* updateDomain, creates a secret or adds the finalizer; if the object it read
\* had no finalizer of the operator, it calls no deleteDomain either, writes
\* nothing to the store and returns the empty result.
C35_DeletionOnly ==
    [][\A d \in DOMAIN inv :
          (inv'[d] # inv[d] /\ DeletionRead(inv'[d])) =>
             LET c == inv'[d] IN
             /\ c.created = "none"
             /\ c.updated = <<>>
             /\ c.ensured = "none"
             /\ secrets' = secrets
             /\ OwnFinalizerOn(store'[Obj(c)]) => OwnFinalizerOn(store[Obj(c)])
             /\ ~OwnFinalizerOn(c.domain) =>
                   /\ c.deleted = <<>>
                   /\ store' = store
                   /\ remote' = remote
                   /\ c.pc = "done"
                   /\ ~c.thrown
                   /\ c.result = EmptyResult]_vars

\* a reconcile has read an object that is being deleted and is held by another
\* controller's finalizer only, and has returned
C35_Witness ==
    \E d \in DOMAIN inv :
       /\ DeletionRead(inv[d])
       /\ ~OwnFinalizerOn(inv[d].domain)
       /\ inv[d].domain.finalizers # <<>>
       /\ inv[d].pc = "done"

\* the step begins the reconcile of a request of drain d
Drained(d) ==
    /\ drain'[d].pc = "await"
    /\ drain[d].pc # "await" \/ drain'[d].i # drain[d].i

\* C36: key consistency. The step by which a drain takes a request and begins
\* its reconcile leaves no request pending under the key that enqueueReconcile
\* stores requests of that (namespace, name) under.
C36_KeyConsistency ==
    [][\A d \in DOMAIN drain :
          Drained(d) =>
             LET request == drain'[d].requests[drain'[d].i] IN
             ~MapHas(reconcileQueue', EnqueueKey(request.namespace, request.name))]_vars

\* ---------------------------------------------------------------------------
\* The queue of the second BaseController (the one that extends EventEmitter):
\* enqueueReconcile and the callback of startReconcileLoop. reconcile(request)
\* is abstract: it settles with any ReconcileResult or throws. The history
\* (lastEnqueued) is the set of objects for which an add or update event has
\* arrived and no reconcile has begun since.
\* ---------------------------------------------------------------------------

\* `${obj.metadata.namespace}/${obj.metadata.name}`: an absent namespace prints
\* as undefined
EnqueueKey2(namespace, name) ==
    (IF namespace = "" THEN "undefined" ELSE namespace) \o "/" \o name

\* the ReconcileResult values: error stands for a result with an error field
ReconcileResults2 ==
    [error : BOOLEAN, requeue : BOOLEAN, requeueAfter : {0, SteadyRequeueMs}]

IdleDrain2 == [pc |-> "idle", requests |-> <<>>, i |-> 0]

NoCall2 == [pc |-> "none"]

ObjOf(request) == [namespace |-> request.namespace, name |-> request.name]

InitQueue2 ==
    /\ reconcileQueue = <<>>
    /\ timers = EmptyBag
    /\ drain = [d \in Drains |-> IdleDrain2]
    /\ inv = [d \in Drains |-> NoCall2]
    /\ lastEnqueued = {}
    /\ registry = NoRegistry
    /\ store = [o \in DomainObjs |-> Absent]
    /\ remote = NoRemote
    /\ secrets = {}
    /\ failuresLeft = 0
    /\ clock = 0

\* the informer reports obj: enqueueReconcile(obj, isDelete)
InformerEvent2(obj, rv, isDelete) ==
    LET key == EnqueueKey2(obj.namespace, obj.name) IN
    /\ reconcileQueue' =
          IF isDelete THEN MapDelete(reconcileQueue, key)
          ELSE MapSet(reconcileQueue, key,
                      [namespace |-> obj.namespace, name |-> obj.name, resourceVersion |-> rv])
    /\ lastEnqueued' = IF isDelete THEN lastEnqueued \ {obj} ELSE lastEnqueued \cup {obj}
    /\ UNCHANGED <<timers, drain, inv, registry, worldVars>>

\* the loop of the callback from request i on, up to the await of reconcile()
LoopFrom2(d, dr, i) ==
    IF i > Len(dr.requests)
    THEN /\ drain' = [drain EXCEPT ![d] = IdleDrain2]
         /\ inv' = [inv EXCEPT ![d] = NoCall2]
         /\ UNCHANGED lastEnqueued
    ELSE /\ drain' = [drain EXCEPT ![d] = [dr EXCEPT !.pc = "await", !.i = i]]
         /\ inv' = [inv EXCEPT ![d] = [NoCall2 EXCEPT !.pc = "reconcile"]]
         /\ lastEnqueued' = lastEnqueued \ {ObjOf(dr.requests[i])}

\* a tick of setInterval while isRunning, with a queue that is not empty
Tick2(d) ==
    /\ drain[d].pc = "idle"
    /\ reconcileQueue # <<>>
    /\ LoopFrom2(d, [pc |-> "idle", requests |-> MapValues(reconcileQueue), i |-> 1], 1)
    /\ UNCHANGED <<reconcileQueue, timers, registry, worldVars>>

\* reconcile(request) settles, with a result or by throwing, and the callback
\* resumes in the same turn of the event loop: what it does with the key, then
\* the next request
Continue2(d) ==
    LET request == drain[d].requests[drain[d].i]
        key == DrainKey(request)
    IN
    /\ drain[d].pc = "await"
    /\ inv[d].pc = "reconcile"
    /\ \E thrown \in BOOLEAN, result \in ReconcileResults2 :
          LET timer == ~thrown /\ ~result.error /\ result.requeue /\ result.requeueAfter # 0
              keep == /\ ~thrown
                      /\ \/ result.error /\ result.requeue
                         \/ ~result.error /\ result.requeue /\ result.requeueAfter = 0
          IN
          /\ timer => BagCardinality(timers) < MaxTimers
          /\ timers' = IF timer THEN timers (+) SetToBag({[key |-> key, request |-> request]})
                       ELSE timers
          /\ reconcileQueue' = IF keep THEN reconcileQueue ELSE MapDelete(reconcileQueue, key)
    /\ LoopFrom2(d, drain[d], drain[d].i + 1)
    /\ UNCHANGED <<registry, worldVars>>

\* a requeue timer fires: this.reconcileQueue.set(key, request)
TimerFire2(t) ==
    /\ BagIn(t, timers)
    /\ timers' = timers (-) SetToBag({t})
    /\ reconcileQueue' = MapSet(reconcileQueue, t.key, t.request)
    /\ UNCHANGED <<drain, inv, lastEnqueued, registry, worldVars>>

NextQueue2 ==
    \/ \E o \in QueueObjs, rv \in ResourceVersions, isDelete \in BOOLEAN :
          InformerEvent2(o, rv, isDelete)
    \/ \E d \in Drains : Tick2(d)
    \/ \E d \in Drains : Continue2(d)
    \/ \E t \in BagToSet(timers) : TimerFire2(t)

SpecQueue2 == InitQueue2 /\ [][NextQueue2]_vars

\* setInterval keeps ticking, every reconcile settles, the event loop resumes
\* every settled await and runs every due timer
LiveSpecQueue2 ==
    /\ SpecQueue2
    /\ \A d \in Drains : WF_vars(Tick2(d) \/ Continue2(d))
    /\ WF_vars(\E t \in BagToSet(timers) : TimerFire2(t))

\* C37: no lost trigger. After an add or update event for an object, whenever
\* it arrives, a reconcile of that object begins (or the object is reported
\* deleted).
C37_NoLostTrigger ==
    \A o \in QueueObjs : (o \in lastEnqueued) ~> (o \notin lastEnqueued)

\* C38: secret and status agree. Whenever the persisted status of an object has
\* phase Ready and a registrationToken, the object's registration-token secret
\* exists and holds that token.
C38_SecretMatchesStatus ==
    \A o \in DomainObjs :
       (/\ store[o].exists
        /\ store[o].status.phase = "Ready"
        /\ store[o].status.registrationToken # "") =>
          \E x \in secrets :
             /\ x.namespace = o.namespace
             /\ x.name = o.name \o "-registration-token"
             /\ x.data = store[o].status.registrationToken

\* ---------------------------------------------------------------------------
\* The deletion scenario of LiveSpec in which the informer reports an object
\* only as long as the store holds it: what the queue does once the object has
\* gone and no further event arrives.
\* ---------------------------------------------------------------------------

NextGone ==
    \/ \E o \in DomainObjs :
          store[o].exists /\ WatchEvent(o, 1) /\ UNCHANGED <<lastEnqueued, registry>>
    \/ \E d \in DomainDrains : Tick(d, MaxDomainTimers) /\ UNCHANGED <<lastEnqueued, registry>>
    \/ \E d \in DomainDrains : Continue(d) /\ UNCHANGED <<lastEnqueued, registry>>
    \/ \E t \in BagToSet(timers) : TimerFire(t) /\ UNCHANGED <<lastEnqueued, registry>>
    \/ \E d \in DomainDrains : GetResource(d) /\ UNCHANGED <<lastEnqueued, registry>>
    \/ \E d \in DomainDrains : CatchGetResource(d) /\ UNCHANGED <<lastEnqueued, registry>>
    \/ \E d \in DomainDrains : CatchUpdateStatus(d) /\ UNCHANGED <<lastEnqueued, registry>>
    \/ \E d \in DomainDrains : DeletingStatus(d) /\ UNCHANGED <<lastEnqueued, registry>>
    \/ \E d \in DomainDrains : DeleteDomain(d) /\ UNCHANGED <<lastEnqueued, registry>>
    \/ \E d \in DomainDrains : RemoveFinalizer(d) /\ UNCHANGED <<lastEnqueued, registry>>

LiveSpecGone ==
    /\ InitLive
    /\ [][NextGone]_vars
    /\ \A d \in DomainDrains : WF_vars(Drive(d))
    /\ WF_vars(Fire)

\* no key is pending, no timer is set, no drain is under way
Quiescent ==
    /\ reconcileQueue = <<>>
    /\ timers = EmptyBag
    /\ \A d \in DomainDrains : drain[d].pc = "idle"

\* a reconcile begun after the object had gone has settled
SettledAfterGone(c) ==
    /\ c.pc = "done"
    /\ ~c.domain.exists
    /\ ~store[Obj(c)].exists

\* once the object has gone the queue comes to rest for good
ChainEnds == \A o \in DomainObjs : (~store[o].exists) ~> []Quiescent

\* C39, as stated: once the object is absent the key is reconciled finitely
\* many more times, each of these reconciles returns the empty result, and
\* afterwards the key is neither pending nor held by a timer.
C39_RequeueChainEnds ==
    /\ ChainEnds
    /\ [](\A d \in DomainDrains :
             SettledAfterGone(inv[d]) => ~inv[d].thrown /\ inv[d].result = EmptyResult)

\* C39, amended: the same, except that a reconcile whose getResource fails
\* throws (and is tried again after ErrorRequeueMs); only finitely many calls fail.
C39_RequeueChainEndsUnlessGetFails ==
    /\ ChainEnds
    /\ [](\A d \in DomainDrains :
             SettledAfterGone(inv[d]) =>
                \/ ~inv[d].thrown /\ inv[d].result = EmptyResult
                \/ inv[d].thrown /\ inv[d].result = EmptyResult /\ inv[d].errorStatus = "none")

\* a request that a requeue timer stored after the object had gone has been
\* reconciled: getResource found nothing
C39_Witness ==
    \E d \in DomainDrains :
       /\ SettledAfterGone(inv[d])
       /\ ~inv[d].thrown
       /\ drain[d].requests[drain[d].i].resourceVersion = 0
       /\ timers = EmptyBag

\* ---------------------------------------------------------------------------
\* The life cycle of one controller (the first BaseController) under any
\* interleaving of start(), stop() and the registry's restart(): start() and
\* stop() calls may overlap, so the calls that are awaiting and the setInterval
\* timers that are active are counted.
\* ---------------------------------------------------------------------------

\* starts: start() calls awaiting setupWatch(); stops: stop() calls awaiting
\* informer.stop(); intervals: active setInterval timers; reconcileIntervalId:
\* the field holds the id of one of them; restart: a restart() call awaiting
\* its stop()
NewLifecycle ==
    [isRunning |-> FALSE, informer |-> FALSE, starts |-> 0, stops |-> 0, intervals |-> 0,
     reconcileIntervalId |-> FALSE, restart |-> FALSE]

\* start() up to its await of setupWatch()
LifecycleStart(c) ==
    IF c.isRunning THEN c
    ELSE [c EXCEPT !.isRunning = TRUE, !.informer = TRUE, !.starts = @ + 1]

\* the end of stop(): clearInterval(this.reconcileIntervalId) if it is set
LifecycleStopEnd(c) ==
    IF c.reconcileIntervalId
    THEN [c EXCEPT !.intervals = @ - 1, !.reconcileIntervalId = FALSE]
    ELSE c

InitLifecycle ==
    /\ reconcileQueue = <<>>
    /\ timers = EmptyBag
    /\ drain = [d \in DomainDrains |-> IdleDrain]
    /\ inv = [d \in DomainDrains |-> NoInv]
    /\ lastEnqueued = <<>>
    /\ store = [o \in DomainObjs |-> Absent]
    /\ remote = NoRemote
    /\ secrets = {}
    /\ failuresLeft = 0
    /\ clock = 0
    /\ registry = [pc |-> "idle", controllers |-> [n \in RunningNames |-> NewLifecycle]]

\* controller.start() is called
StartCalled(n) ==
    LET c == registry.controllers[n] IN
    /\ c.intervals + c.starts < MaxIntervals
    /\ registry' = [registry EXCEPT !.controllers[n] = LifecycleStart(c)]
    /\ UNCHANGED <<queueVars, inv, lastEnqueued, worldVars>>

\* setupWatch() of a start() call resolves: startReconcileLoop()
SetupWatchResolved(n) ==
    LET c == registry.controllers[n] IN
    /\ c.starts > 0
    /\ registry' = [registry EXCEPT !.controllers[n] =
                       [c EXCEPT !.starts = @ - 1, !.intervals = @ + 1,
                                 !.reconcileIntervalId = TRUE]]
    /\ UNCHANGED <<queueVars, inv, lastEnqueued, worldVars>>

\* setupWatch() of a start() call rejects, and so does start()
SetupWatchRejected(n) ==
    LET c == registry.controllers[n] IN
    /\ c.starts > 0
    /\ registry' = [registry EXCEPT !.controllers[n] = [c EXCEPT !.starts = @ - 1]]
    /\ UNCHANGED <<queueVars, inv, lastEnqueued, worldVars>>

\* controller.stop() is called, by the registry's restart() if restart
StopCalled(n, restart) ==
    LET c == registry.controllers[n] IN
    /\ c.stops = 0
    /\ ~c.restart
    /\ restart => c.intervals + c.starts < MaxIntervals
    /\ registry' = [registry EXCEPT !.controllers[n] =
          IF c.informer
          THEN [c EXCEPT !.isRunning = FALSE, !.stops = 1, !.restart = restart]
          ELSE LET stopped == LifecycleStopEnd([c EXCEPT !.isRunning = FALSE])
               IN  IF restart THEN LifecycleStart(stopped) ELSE stopped]
    /\ reconcileQueue' = IF c.informer THEN reconcileQueue ELSE <<>>
    /\ UNCHANGED <<timers, drain, inv, lastEnqueued, worldVars>>

\* informer.stop() resolves: this.informer = undefined, the end of stop(), and
\* then the start() call of restart()
InformerStopped(n) ==
    LET c == registry.controllers[n]
        stopped == LifecycleStopEnd([c EXCEPT !.informer = FALSE, !.stops = 0,
                                              !.restart = FALSE])
    IN
    /\ c.stops > 0
    /\ registry' = [registry EXCEPT !.controllers[n] =
                       IF c.restart THEN LifecycleStart(stopped) ELSE stopped]
    /\ reconcileQueue' = <<>>
    /\ UNCHANGED <<timers, drain, inv, lastEnqueued, worldVars>>

\* a tick of one of the active setInterval timers
LifecycleTick(n, d) ==
    /\ registry.controllers[n].intervals > 0
    /\ Tick(d, MaxTimers)
    /\ UNCHANGED <<lastEnqueued, registry>>

\* an event of the informer, while one is set
LifecycleEvent(n, o) ==
    /\ registry.controllers[n].informer
    /\ WatchEvent(o, 1)
    /\ UNCHANGED <<lastEnqueued, registry>>

NextLifecycle ==
    \/ \E n \in RunningNames : StartCalled(n)
    \/ \E n \in RunningNames : SetupWatchResolved(n)
    \/ \E n \in RunningNames : SetupWatchRejected(n)
    \/ \E n \in RunningNames, restart \in BOOLEAN : StopCalled(n, restart)
    \/ \E n \in RunningNames : InformerStopped(n)
    \/ \E n \in RunningNames, d \in DomainDrains : LifecycleTick(n, d)
    \/ \E n \in RunningNames, o \in DomainObjs : LifecycleEvent(n, o)
    \/ \E d \in DomainDrains : AbstractReconcile(d) /\ UNCHANGED <<lastEnqueued, registry>>
    \/ \E d \in DomainDrains : Continue(d) /\ UNCHANGED <<lastEnqueued, registry>>
    \/ \E t \in BagToSet(timers) : TimerFire(t) /\ UNCHANGED <<lastEnqueued, registry>>

SpecLifecycle == InitLifecycle /\ [][NextLifecycle]_vars

\* C40: single drain timer. In every interleaving of start(), stop() and
\* restart() calls a controller has at most one active setInterval timer, and
\* it has none while isRunning is false and no stop() call is still on its way
\* to clearInterval.
C40_SingleDrainTimer ==
    \A n \in RunningNames :
       LET c == registry.controllers[n] IN
       /\ c.intervals <= 1
       /\ (~c.isRunning /\ c.stops = 0) => c.intervals = 0

\* the two halves of C40, apart
C40_AtMostOne ==
    \A n \in RunningNames : registry.controllers[n].intervals <= 1

C40_NoneWhenStopped ==
    \A n \in RunningNames :
       LET c == registry.controllers[n] IN
       (~c.isRunning /\ c.stops = 0) => c.intervals = 0

====
